---- MODULE Spec2Model ----
(***************************************************************************)
(* Model of the wagmi-playground view-models.                              *)
(*                                                                         *)
(* One playground is mounted per run (page): the signature playground      *)
(* (useIsValidSignaturePlayground), the bytecode / typed-data playground   *)
(* (useBytecodeSizeExperiment), the wallet_sendCalls delegation            *)
(* playground (DelegationExperiment) or the UI-only delegation playground  *)
(* (DelegationUiExperiment).  State is the React state of the mounted      *)
(* hook, the wallet connection, and the wallet / chain calls in flight.    *)
(*                                                                         *)
(* A string of the program is held in the state by name; Chars(s) gives    *)
(* the characters of the string the name stands for, and every validator   *)
(* works on those characters.                                              *)
(***************************************************************************)
EXTENDS Integers, Sequences, FiniteSets, TLC

\* ---------------------------------------------------------------- bounds
\* in-flight calls of one action the model can hold
MaxInflight == 2
\* user events (edits, clicks, wallet connects) in one run
MaxEvents == 4
\* hex digits taken from the sample alphabet in a raw verification result
VarDigits == 4

\* ------------------------------------------------------ program constants
HashBytes == 32
SignatureBytes == 65
AddressBytes == 20
AddressHexDigits == 2 * AddressBytes

\* null and undefined of a string-valued field; an object-valued field holds
\* the set of its object, {} when null
NULL == "<null>"
UNDEFINED == "<undefined>"

\* ----------------------------------------------------------------- strings
Rep(n, c) == [i \in 1..n |-> c]

HexDigits == {"0","1","2","3","4","5","6","7","8","9",
              "a","b","c","d","e","f","A","B","C","D","E","F"}

UpperHex == {"A","B","C","D","E","F"}
LowerHex == {"a","b","c","d","e","f"}

ERC1271_MAGIC_VALUE == "0x1626ba7e"
DEFAULT_HELPER_ADDRESS == "0xae60..4cb5"
DEFAULT_TARGET_ADDRESS == "0x3c7a..5dd4"
\* the account the wallet exposes once connected
WalletAddress == "0xwallet"
\* the initial userAddress of the wagmi variant
ZeroAddress == "0x0000..0000"
\* the checksummed address recoverTypedDataAddress returns
RecoveredAddress == "0x9999..99aB"

\* a null where the characters of a string are expected
NullChars == <<NULL>>

\* characters of the strings the state holds by name
CharsOf(s) ==
  CASE s = "" -> << >>
    [] s = " " -> <<" ">>
    [] s = "a" -> <<"a">>
    [] s = "b" -> <<"b">>
    [] s = "zz" -> <<"z","z">>
    [] s = "0x12" -> <<"0","x","1","2">>
    [] s = " 0x12 " -> <<" ","0","x","1","2"," ">>
    [] s = "eip191:a" -> <<"0","x">> \o Rep(2 * HashBytes - 1, "e") \o <<"a">>
    [] s = "eip191:b" -> <<"0","x">> \o Rep(2 * HashBytes - 1, "e") \o <<"b">>
    [] s = "eip191:" -> <<"0","x">> \o Rep(2 * HashBytes, "e")
    [] s = "keccak:" -> <<"0","x">> \o Rep(2 * HashBytes, "c")
    [] s = "keccak:a" -> <<"0","x">> \o Rep(2 * HashBytes - 1, "c") \o <<"a">>
    [] s = "keccak:b" -> <<"0","x">> \o Rep(2 * HashBytes - 1, "c") \o <<"b">>
    [] s = "sig:a" -> <<"0","x">> \o Rep(2 * SignatureBytes - 1, "5") \o <<"a">>
    [] s = "sig:b" -> <<"0","x">> \o Rep(2 * SignatureBytes - 1, "5") \o <<"b">>
    [] s = DEFAULT_HELPER_ADDRESS -> <<"0","x">> \o Rep(AddressHexDigits, "a")
    [] s = DEFAULT_TARGET_ADDRESS -> <<"0","x">> \o Rep(AddressHexDigits, "3")
    [] s = WalletAddress -> <<"0","x">> \o Rep(AddressHexDigits, "b")
    [] s = ZeroAddress -> <<"0","x">> \o Rep(AddressHexDigits, "0")
    [] s = "0xabc" -> <<"0","x","a","b","c">>
    [] s = ERC1271_MAGIC_VALUE -> <<"0","x","1","6","2","6","b","a","7","e">>
    [] s = "0x1626BA7E" -> <<"0","x","1","6","2","6","B","A","7","E">>
    [] s = "0xffffffff" -> <<"0","x">> \o Rep(8, "f")
    [] s = "0x" -> <<"0","x">>
    [] s = "0x6080" -> <<"0","x","6","0","8","0">>
    [] s = "sig:typed" -> <<"0","x">> \o Rep(2 * SignatureBytes, "7")
    [] s = "digest:{}" -> <<"0","x">> \o Rep(2 * HashBytes - 1, "d") \o <<"0">>
    [] s = "digest:1" -> <<"0","x">> \o Rep(2 * HashBytes - 1, "d") \o <<"1">>
    [] s = "digest:11155111" -> <<"0","x">> \o Rep(2 * HashBytes - 1, "d") \o <<"2">>
    [] s = RecoveredAddress -> <<"0","x">> \o Rep(AddressHexDigits - 2, "9") \o <<"a","B">>
    [] s = "0x3C7A..5dD4" -> <<"0","x">> \o Rep(AddressHexDigits - 2, "3") \o <<"c","D">>
    [] s = "0x63c0..e32B" -> <<"0","x">> \o Rep(AddressHexDigits - 2, "6") \o <<"2","B">>
    [] s = "key:1" -> <<"0","x">> \o Rep(2 * HashBytes, "1")
    [] s = "h:63" -> <<"0","x">> \o Rep(2 * HashBytes - 1, "a")
    [] s = "h:65" -> <<"0","x">> \o Rep(2 * HashBytes + 1, "a")
    [] s = "h:upper" -> <<"0","x">> \o Rep(2 * HashBytes, "A")
    [] s = "h:bad" -> <<"0","x">> \o Rep(2 * HashBytes - 1, "a") \o <<"g">>
    [] s = "h:noprefix" -> Rep(2 * HashBytes, "a")
    [] s = "h:0X" -> <<"0","X">> \o Rep(2 * HashBytes, "a")
    [] s = "s:129" -> <<"0","x">> \o Rep(2 * SignatureBytes - 1, "5")
    [] s = "s:131" -> <<"0","x">> \o Rep(2 * SignatureBytes + 1, "5")
    [] s = "s:upper" -> <<"0","x">> \o Rep(2 * SignatureBytes, "F")
    [] s = "s:bad" -> <<"0","x">> \o Rep(2 * SignatureBytes - 1, "5") \o <<"g">>
    [] s = NULL -> NullChars
    [] OTHER -> <<"?">>

\* String.prototype.trim on a character sequence
RECURSIVE TrimLeft(_)
TrimLeft(cs) == IF cs # << >> /\ Head(cs) = " " THEN TrimLeft(Tail(cs)) ELSE cs

RECURSIVE TrimRight(_)
TrimRight(cs) ==
  IF cs # << >> /\ cs[Len(cs)] = " " THEN TrimRight(SubSeq(cs, 1, Len(cs) - 1)) ELSE cs

TrimChars(cs) == TrimRight(TrimLeft(cs))

\* every string a user types or a library returns in this model
Names == {"", " ", "a", "b", "zz", "0x12", " 0x12 ", "eip191:a", "eip191:b",
          "eip191:", "keccak:", "keccak:a", "keccak:b", "sig:a", "sig:b", DEFAULT_HELPER_ADDRESS,
          DEFAULT_TARGET_ADDRESS, WalletAddress, ZeroAddress, "0xabc",
          ERC1271_MAGIC_VALUE, "0x1626BA7E", "0xffffffff", "0x", "0x6080",
          "sig:typed", "digest:{}", "digest:1", "digest:11155111",
          RecoveredAddress, "0x3C7A..5dD4", "0x63c0..e32B", "key:1",
          "h:63", "h:65", "h:upper", "h:bad", "h:noprefix", "h:0X",
          "s:129", "s:131", "s:upper", "s:bad"}

CharTable == [s \in Names \cup {NULL, UNDEFINED} |-> CharsOf(s)]
Chars(s) == CharTable[s]

\* value.trim(): the name of the string with the trimmed characters
TrimTable == [s \in Names |-> CHOOSE t \in Names : Chars(t) = TrimChars(Chars(s))]
Trim(s) == TrimTable[s]

\* String.prototype.toLowerCase on a character sequence
LowerChar(c) ==
  CASE c = "A" -> "a" [] c = "B" -> "b" [] c = "C" -> "c"
    [] c = "D" -> "d" [] c = "E" -> "e" [] c = "F" -> "f"
    [] c = "X" -> "x" [] OTHER -> c

ToLowerCase(cs) == [i \in 1..Len(cs) |-> LowerChar(cs[i])]

\* matchesMagic.helper / matchesMagic.target of the signature playground, on
\* the characters of the raw result: (r ?? "").toLowerCase() === magic
matchesMagic(r) ==
  ToLowerCase(IF r = NullChars THEN << >> ELSE r) = Chars(ERC1271_MAGIC_VALUE)

\* isErc1271MagicValue of the bytecode playground: value === magic
isErc1271MagicValue(value) == value = Chars(ERC1271_MAGIC_VALUE)

\* ethers isHexString(value, length?): /^0x[0-9A-Fa-f]*$/ and, with a
\* length, value.length === 2 + 2 * length
IsHexChars(cs) ==
  /\ Len(cs) >= 2
  /\ cs[1] = "0"
  /\ cs[2] = "x"
  /\ \A i \in 3..Len(cs) : cs[i] \in HexDigits

isHexString(s) == IsHexChars(Chars(s))

\* a length test that accepts every hex string
isHexStringAnyLen(s, length) == IsHexChars(Chars(s))

isHexStringLen(s, length) ==
  /\ IsHexChars(Chars(s))
  /\ Len(Chars(s)) = 2 + 2 * length

\* validateHash (utils.ts): empty, not hex, not 32 bytes, in that order
validateHash(hash) ==
  IF hash = "" \/ hash = UNDEFINED THEN "Enter a hash"
  ELSE IF ~isHexString(hash) THEN "Hash must be a hex string"
  ELSE IF ~isHexStringLen(hash, HashBytes) THEN "Hash must be a bytes32 hex string"
  ELSE NULL

\* validateSignature (utils.ts): empty, not hex, not 65 bytes, in that order
validateSignature(sig) ==
  IF sig = "" \/ sig = UNDEFINED THEN "Enter a signature"
  ELSE IF ~isHexString(sig) THEN "Signature must be a hex string"
  ELSE IF ~isHexStringLen(sig, SignatureBytes) THEN "Signature must be 65 bytes long"
  ELSE NULL

\* addresses in checksum (mixed-case) form that pass the checksum test
ChecksummedAddresses == {RecoveredAddress, "0x3C7A..5dD4", "0x63c0..e32B"}

IsMixedCase(cs) ==
  /\ \E i \in 1..Len(cs) : cs[i] \in UpperHex
  /\ \E i \in 1..Len(cs) : cs[i] \in LowerHex

\* ethers isAddress: 40 hex digits with an optional 0x prefix; a mixed-case
\* address must also carry a valid checksum
isAddress(s) ==
  LET cs == Chars(s)
      body == IF Len(cs) >= 2 /\ cs[1] = "0" /\ cs[2] = "x"
              THEN SubSeq(cs, 3, Len(cs)) ELSE cs
  IN /\ s # UNDEFINED
     /\ Len(body) = AddressHexDigits
     /\ \A i \in 1..Len(body) : body[i] \in HexDigits
     /\ (IsMixedCase(body) => s \in ChecksummedAddresses)

validateAddress(value, errorMessage) ==
  IF ~isAddress(value) THEN errorMessage ELSE NULL

\* ethers hashMessage / keccak256(toUtf8Bytes(.)): injective functions of
\* the message with a 32-byte hex value
hashMessage(m) ==
  CASE m = "a" -> "eip191:a" [] m = "b" -> "eip191:b" [] OTHER -> "eip191:"
keccak256(m) ==
  CASE m = "a" -> "keccak:a" [] m = "b" -> "keccak:b" [] OTHER -> "keccak:"

\* the signature a wallet returns for a message (65 bytes)
WalletSign(m) == IF m = "a" THEN "sig:a" ELSE "sig:b"

\* ------------------------------------------------------------------ errors
\* values a rejected wallet / chain call throws
RevertError == [base |-> TRUE, isError |-> TRUE,
                shortMessage |-> "Execution reverted",
                message |-> "Execution reverted (details)"]
ThrownValue == [base |-> FALSE, isError |-> FALSE,
                shortMessage |-> "", message |-> UNDEFINED]
\* the rejections the wallet / chain of the model produces
CallErrors == {RevertError, ThrownValue}

\* getErrorMessage: shortMessage || message for a BaseError, message for an
\* Error, the fallback otherwise
getErrorMessage(error, fallback) ==
  IF error.base
  THEN (IF error.shortMessage # "" THEN error.shortMessage ELSE error.message)
  ELSE IF error.isError THEN error.message
  ELSE fallback

\* error?.message ?? fallback
MessageOrFallback(error, fallback) ==
  IF error.message # UNDEFINED /\ error.message # NULL THEN error.message ELSE fallback

\* ------------------------------------------------------------------- state
VARIABLES
  page,            \* the playground mounted
  queryEnabled,    \* query.enabled of the two useReadContract hooks
  address,         \* useAccount().address (UNDEFINED when disconnected)
  provider,        \* options.provider of the signer / provider hook ({} when absent)
  calls,           \* per action: the wallet / chain calls in flight
  reads,           \* contract reads issued by the last step
  ev,              \* the last event: [act, kind]
  escaped,         \* a rejection left an action as an unhandled rejection
  events,          \* user events so far
  noWalletSeen,    \* history: the actions that were refused for want of a wallet
  \* signature playground
  message, hashMessageSaved, rawKeccakHash, signature,
  hashError, signError, helperAddress, targetAddress, userAddress,
  helperResult, helperError, targetResult, targetError,
  isSigning, isCallingHelper, isCallingTarget,
  \* bytecode / typed-data playground
  chainId, configuredChains,
  domainInput, typesInput, messageInput, primaryType, signatureInput,
  payloadForSigning, payloadError, autogenerateError, typedDataError,
  isRecovering, isAutogenerating, claimedSigner, addressInput,
  bytecodeResult, bytecodeError, isFetchingBytecode,
  hashInput, erc1271Signature, erc1271Result, erc1271Error, isChecking1271,
  bytecodeOrigin, erc1271Origin,  \* the networks of the call behind the fields
  \* delegation playgrounds
  walletClientData,  \* useWalletClient().data of the delegation playground
  delegateContract, delegateStatus, delegateError, delegateResponse,
  undelegateContract, undelegateStatus, undelegateError, undelegateResponse,
  selectedOption, customAddress, privateKeyInput,  \* delegation toolkit playground
  \* a pure function applied on its own
  fn, arg, out

envVars == <<page, queryEnabled, address, provider>>
sigInputs == <<message, hashMessageSaved, rawKeccakHash, signature,
               helperAddress, targetAddress, userAddress>>
sigHashVars == <<hashError>>
sigSignVars == <<signError, isSigning>>
sigHelperVars == <<helperResult, helperError, isCallingHelper>>
sigTargetVars == <<targetResult, targetError, isCallingTarget>>
sigVars == <<sigInputs, sigHashVars, sigSignVars, sigHelperVars, sigTargetVars>>

typedInputs == <<domainInput, typesInput, messageInput, primaryType>>
payloadVars == <<payloadForSigning, payloadError>>
bytecodeVars == <<bytecodeResult, bytecodeError, bytecodeOrigin>>
erc1271Vars == <<erc1271Result, erc1271Error, erc1271Origin>>
byteVars == <<chainId, configuredChains, typedInputs, signatureInput, payloadVars,
              autogenerateError, typedDataError, isRecovering, isAutogenerating,
              claimedSigner, addressInput, bytecodeVars, isFetchingBytecode,
              hashInput, erc1271Signature, erc1271Vars, isChecking1271>>

delegateVars == <<delegateStatus, delegateError, delegateResponse>>
undelegateVars == <<undelegateStatus, undelegateError, undelegateResponse>>
d2Inputs == <<selectedOption, customAddress, privateKeyInput>>
delVars == <<walletClientData, delegateContract, delegateVars, undelegateContract,
             undelegateVars, d2Inputs>>

pureVars == <<fn, arg, out>>

vars == <<envVars, calls, reads, ev, escaped, events, noWalletSeen, sigVars, byteVars, delVars,
          pureVars>>

Pages == {"signature", "signatureEthers", "bytecode", "delegation", "delegationUi",
          "delegation2"}
\* the two variants of the signature playground: wagmi hooks, and an ethers
\* signer and provider handed in as options
SigPages == {"signature", "signatureEthers"}
SigActions == {"signMessage", "callHelper", "callTarget"}
ByteActions == {"autogenerateTypedData", "recoverSigner", "fetchBytecode", "checkErc1271"}
DelActions == {"handleDelegate", "handleUndelegate"}
Actions == SigActions \cup ByteActions \cup DelActions

Event(act, kind) == [act |-> act, kind |-> kind]

\* a call record joins the calls in flight of action a
StartCall(a, c) == calls' = [calls EXCEPT ![a] = Append(@, c)]
\* the i-th call in flight of action a completes
EndCall(a, i) ==
  calls' = [calls EXCEPT ![a] = SubSeq(@, 1, i - 1) \o SubSeq(@, i + 1, Len(@))]

\* canSign of the signature playground
canSign == address # UNDEFINED /\ message # ""
\* canInteract of the delegation playground
canInteract == address # UNDEFINED

\* a view whose buttons are never disabled
NeverDisabled(a) == FALSE

\* the disabled attribute of the button that invokes action a
Disabled(a) ==
  CASE a = "signMessage" -> ~canSign \/ isSigning
    [] a = "callHelper" -> isCallingHelper
    [] a = "callTarget" -> isCallingTarget
    [] a = "autogenerateTypedData" -> isAutogenerating
    [] a = "recoverSigner" -> isRecovering
    [] a = "fetchBytecode" -> isFetchingBytecode
    [] a = "checkErc1271" -> isChecking1271
    [] a = "handleDelegate" ->
         IF page = "delegation"
         THEN ~canInteract \/ delegateStatus = "pending"
         ELSE delegateStatus = "pending"
    [] a = "handleUndelegate" -> ~canInteract \/ undelegateStatus = "pending"

\* a click reaches the handler of a only while its button is enabled and the
\* model has room for one more call in flight
Clickable(a) == ~Disabled(a) /\ Len(calls[a]) < MaxInflight

\* ---------------------------------------------------- signature playground
\* the arguments the two useReadContract hooks are registered with
HelperRead(by) ==
  [fn |-> "isValidSignatureWithUser", by |-> by,
   address |-> IF helperAddress # "" THEN helperAddress ELSE DEFAULT_HELPER_ADDRESS,
   hash |-> hashMessageSaved, signature |-> signature, user |-> userAddress]

TargetRead(by) ==
  [fn |-> "isValidSignature", by |-> by,
   address |-> IF targetAddress # "" THEN targetAddress ELSE DEFAULT_TARGET_ADDRESS,
   hash |-> hashMessageSaved, signature |-> signature, user |-> NULL]

\* an enabled query fetches on mount and again whenever its key changes
HookReads ==
  IF queryEnabled
  THEN (IF HelperRead("hook")' # HelperRead("hook") THEN {HelperRead("hook")'} ELSE {})
       \cup (IF TargetRead("hook")' # TargetRead("hook") THEN {TargetRead("hook")'} ELSE {})
  ELSE {}

\* action a has no wallet to sign with: no connected account for signMessage
\* and autogenerateTypedData; no wallet client for handleDelegate of the
\* delegation playground; neither a signing client nor a private key in the
\* toolkit playground; the client of DelegationUiExperiment is built in
NoWallet(a) ==
  CASE a \in {"signMessage", "autogenerateTypedData"} -> address = UNDEFINED
    [] a = "handleDelegate" /\ page = "delegation" ->
         address = UNDEFINED \/ walletClientData = UNDEFINED
    [] a = "handleDelegate" /\ page = "delegation2" ->
         walletClientData # "local" /\ Trim(privateKeyInput) = ""
    [] OTHER -> FALSE

\* every step records its event and the reads it issued; a user event
\* counts against MaxEvents, a completion of a call does not
Step(e, issued) ==
  /\ UNCHANGED pureVars
  /\ noWalletSeen' = IF e.kind = "invalid" /\ NoWallet(e.act)
                     THEN noWalletSeen \cup {e.act} ELSE noWalletSeen
  /\ ev' = e
  /\ reads' = issued \cup HookReads
  /\ IF e.kind \in {"resolved", "rejected"}
     THEN events' = events
     ELSE events < MaxEvents /\ events' = events + 1

\* the last conjunct of every step of the signature playground
SigStep(e, issued) ==
  /\ Step(e, issued)
  /\ UNCHANGED <<byteVars, delVars>>

\* values typed into the fields
MessageTyped == {"", "a", "b"}
HashTyped == {"zz", " 0x12 "}
SignatureTyped == {" ", "0x12"}
AddressTyped == {"0xabc"}

\* the bytes4 values a verification call resolves with
CallResults == {ERC1271_MAGIC_VALUE, "0xffffffff"}

\* actions.setMessage is the state setter itself
SetMessage(v) ==
  /\ page \in SigPages
  /\ v # message
  /\ message' = v
  /\ UNCHANGED <<envVars, calls, escaped, hashMessageSaved, rawKeccakHash,
                 signature, helperAddress, targetAddress, userAddress,
                 sigHashVars, sigSignVars, sigHelperVars, sigTargetVars>>
  /\ SigStep(Event("setMessage", "input"), {})

updateHashMessage(v) ==
  /\ page = "signature"
  /\ v # hashMessageSaved
  /\ hashMessageSaved' = Trim(v)
  /\ hashError' = NULL
  /\ UNCHANGED <<envVars, calls, escaped, message, rawKeccakHash, signature,
                 helperAddress, targetAddress, userAddress,
                 sigSignVars, sigHelperVars, sigTargetVars>>
  /\ SigStep(Event("setHashMessage", "input"), {})

updateSignature(v) ==
  /\ page = "signature"
  /\ v # (IF signature = UNDEFINED THEN "" ELSE signature)
  /\ signature' = IF Trim(v) # "" THEN Trim(v) ELSE UNDEFINED
  /\ signError' = NULL
  /\ UNCHANGED <<envVars, calls, escaped, message, hashMessageSaved, rawKeccakHash,
                 helperAddress, targetAddress, userAddress, isSigning,
                 sigHashVars, sigHelperVars, sigTargetVars>>
  /\ SigStep(Event("setSignature", "input"), {})

updateHelperAddress(v) ==
  /\ page = "signature"
  /\ v # helperAddress
  /\ helperAddress' = Trim(v)
  /\ helperError' = NULL
  /\ UNCHANGED <<envVars, calls, escaped, message, hashMessageSaved, rawKeccakHash,
                 signature, targetAddress, userAddress, helperResult, isCallingHelper,
                 sigHashVars, sigSignVars, sigTargetVars>>
  /\ SigStep(Event("setHelperAddress", "input"), {})

updateTargetAddress(v) ==
  /\ page = "signature"
  /\ v # targetAddress
  /\ targetAddress' = Trim(v)
  /\ targetError' = NULL
  /\ UNCHANGED <<envVars, calls, escaped, message, hashMessageSaved, rawKeccakHash,
                 signature, helperAddress, userAddress, targetResult, isCallingTarget,
                 sigHashVars, sigSignVars, sigHelperVars>>
  /\ SigStep(Event("setTargetAddress", "input"), {})

updateUserAddress(v) ==
  /\ page = "signature"
  /\ v # userAddress
  /\ userAddress' = Trim(v)
  /\ helperError' = NULL
  /\ UNCHANGED <<envVars, calls, escaped, message, hashMessageSaved, rawKeccakHash,
                 signature, helperAddress, targetAddress, helperResult, isCallingHelper,
                 sigHashVars, sigSignVars, sigTargetVars>>
  /\ SigStep(Event("setUserAddress", "input"), {})

\* a computeHashes that wipes the stored hashes when the message is empty
computeHashesClearingOnEmpty ==
  /\ page \in SigPages
  /\ IF message = ""
     THEN /\ hashError' = "Enter a message to hash"
          /\ hashMessageSaved' = ""
          /\ rawKeccakHash' = ""
     ELSE /\ hashMessageSaved' = hashMessage(message)
          /\ rawKeccakHash' = keccak256(message)
          /\ hashError' = NULL
  /\ UNCHANGED <<envVars, calls, escaped, message, signature, helperAddress,
                 targetAddress, userAddress, sigSignVars, sigHelperVars, sigTargetVars>>
  /\ SigStep(Event("computeHashes", IF message = "" THEN "invalid" ELSE "done"), {})

\* a computeHashes whose digests depend on the connected account
computeHashesOfAccount ==
  /\ page \in SigPages
  /\ IF message = ""
     THEN /\ hashError' = "Enter a message to hash"
          /\ UNCHANGED <<hashMessageSaved, rawKeccakHash>>
     ELSE /\ hashMessageSaved' = hashMessage(IF address = UNDEFINED THEN message ELSE "")
          /\ rawKeccakHash' = keccak256(IF address = UNDEFINED THEN message ELSE "")
          /\ hashError' = NULL
  /\ UNCHANGED <<envVars, calls, escaped, message, signature, helperAddress,
                 targetAddress, userAddress, sigSignVars, sigHelperVars, sigTargetVars>>
  /\ SigStep(Event("computeHashes", IF message = "" THEN "invalid" ELSE "done"), {})

computeHashes ==
  /\ page \in SigPages
  /\ IF message = ""
     THEN /\ hashError' = "Enter a message to hash"
          /\ UNCHANGED <<hashMessageSaved, rawKeccakHash>>
     ELSE /\ hashMessageSaved' = hashMessage(message)
          /\ rawKeccakHash' = keccak256(message)
          /\ hashError' = NULL
  /\ UNCHANGED <<envVars, calls, escaped, message, signature, helperAddress,
                 targetAddress, userAddress, sigSignVars, sigHelperVars, sigTargetVars>>
  /\ SigStep(Event("computeHashes", IF message = "" THEN "invalid" ELSE "done"), {})

signMessage ==
  /\ page = "signature"
  /\ Clickable("signMessage")
  /\ IF message = ""
     THEN /\ signError' = "Enter a message to sign"
          /\ UNCHANGED <<isSigning, calls>>
     ELSE /\ signError' = NULL
          /\ isSigning' = TRUE
          /\ StartCall("signMessage", [message |-> message, address |-> address])
  /\ UNCHANGED <<envVars, escaped, sigInputs, sigHashVars, sigHelperVars, sigTargetVars>>
  /\ SigStep(Event("signMessage", IF message = "" THEN "invalid" ELSE "invoke"), {})

\* a continuation that hashes the message of the field, not the one signed
signMessageResolvedHashingField(i) ==
  /\ page \in SigPages
  /\ i \in 1..Len(calls["signMessage"])
  /\ LET c == calls["signMessage"][i]
     IN /\ signature' = WalletSign(c.message)
        /\ hashMessageSaved' = hashMessage(message)
        /\ rawKeccakHash' = keccak256(message)
        /\ hashError' = NULL
        /\ userAddress' = IF c.address # UNDEFINED THEN c.address ELSE userAddress
  /\ isSigning' = FALSE
  /\ EndCall("signMessage", i)
  /\ UNCHANGED <<envVars, escaped, message, helperAddress, targetAddress, signError,
                 sigHelperVars, sigTargetVars>>
  /\ SigStep(Event("signMessage", "resolved"), {})

\* signMessageAsync resolved: the continuation uses the message and the
\* address its closure captured
signMessageResolved(i) ==
  /\ page \in SigPages
  /\ i \in 1..Len(calls["signMessage"])
  /\ LET c == calls["signMessage"][i]
     IN /\ signature' = WalletSign(c.message)
        /\ hashMessageSaved' = hashMessage(c.message)
        /\ rawKeccakHash' = keccak256(c.message)
        /\ hashError' = NULL
        /\ userAddress' = IF c.address # UNDEFINED THEN c.address ELSE userAddress
  /\ isSigning' = FALSE
  /\ EndCall("signMessage", i)
  /\ UNCHANGED <<envVars, escaped, message, helperAddress, targetAddress, signError,
                 sigHelperVars, sigTargetVars>>
  /\ SigStep(Event("signMessage", "resolved"), {})

signMessageRejected(i, error) ==
  /\ page \in SigPages
  /\ i \in 1..Len(calls["signMessage"])
  /\ signError' = MessageOrFallback(error, "Failed to sign the message")
  /\ isSigning' = FALSE
  /\ EndCall("signMessage", i)
  /\ UNCHANGED <<envVars, escaped, sigInputs, sigHashVars, sigHelperVars, sigTargetVars>>
  /\ SigStep(Event("signMessage", "rejected"), {})

\* a callHelper that validates the two addresses before the hash and the
\* signature
callHelperValidationAddressesFirst ==
  IF validateAddress(helperAddress, "Enter a valid helper contract address") # NULL
  THEN "Enter a valid helper contract address"
  ELSE IF validateAddress(userAddress, "Enter a valid user address") # NULL
       THEN "Enter a valid user address"
  ELSE IF validateHash(hashMessageSaved) # NULL THEN validateHash(hashMessageSaved)
  ELSE validateSignature(signature)

\* the first failing validator of callHelper, NULL when all pass
callHelperValidation ==
  IF validateHash(hashMessageSaved) # NULL THEN validateHash(hashMessageSaved)
  ELSE IF validateSignature(signature) # NULL THEN validateSignature(signature)
  ELSE IF validateAddress(helperAddress, "Enter a valid helper contract address") # NULL
       THEN "Enter a valid helper contract address"
  ELSE validateAddress(userAddress, "Enter a valid user address")

callHelper ==
  /\ page = "signature"
  /\ Clickable("callHelper")
  /\ IF callHelperValidation # NULL
     THEN /\ helperError' = callHelperValidation
          /\ UNCHANGED <<helperResult, isCallingHelper, calls>>
          /\ UNCHANGED <<envVars, escaped, sigInputs, sigHashVars, sigSignVars, sigTargetVars>>
          /\ SigStep(Event("callHelper", "invalid"), {})
     ELSE /\ isCallingHelper' = TRUE
          /\ helperError' = NULL
          /\ helperResult' = NULL
          /\ StartCall("callHelper", HelperRead("refetch"))
          /\ UNCHANGED <<envVars, escaped, sigInputs, sigHashVars, sigSignVars, sigTargetVars>>
          /\ SigStep(Event("callHelper", "invoke"), {HelperRead("refetch")})

\* refetchHelper resolved; data may be undefined
callHelperResolved(i, data) ==
  /\ page = "signature"
  /\ i \in 1..Len(calls["callHelper"])
  /\ helperResult' = IF data = UNDEFINED THEN NULL ELSE data
  /\ isCallingHelper' = FALSE
  /\ EndCall("callHelper", i)
  /\ UNCHANGED <<envVars, escaped, sigInputs, sigHashVars, sigSignVars, sigTargetVars,
                 helperError>>
  /\ SigStep(Event("callHelper", "resolved"), {})

callHelperRejected(i, error) ==
  /\ page = "signature"
  /\ i \in 1..Len(calls["callHelper"])
  /\ helperError' = getErrorMessage(error, "The call failed")
  /\ isCallingHelper' = FALSE
  /\ EndCall("callHelper", i)
  /\ UNCHANGED <<envVars, escaped, sigInputs, sigHashVars, sigSignVars, sigTargetVars,
                 helperResult>>
  /\ SigStep(Event("callHelper", "rejected"), {})

\* the first failing validator of callTarget, NULL when all pass
callTargetValidation ==
  IF validateHash(hashMessageSaved) # NULL THEN validateHash(hashMessageSaved)
  ELSE IF validateSignature(signature) # NULL THEN validateSignature(signature)
  ELSE validateAddress(targetAddress, "Enter a valid contract address")

callTarget ==
  /\ page = "signature"
  /\ Clickable("callTarget")
  /\ IF callTargetValidation # NULL
     THEN /\ targetError' = callTargetValidation
          /\ UNCHANGED <<targetResult, isCallingTarget, calls>>
          /\ UNCHANGED <<envVars, escaped, sigInputs, sigHashVars, sigSignVars, sigHelperVars>>
          /\ SigStep(Event("callTarget", "invalid"), {})
     ELSE /\ isCallingTarget' = TRUE
          /\ targetError' = NULL
          /\ targetResult' = NULL
          /\ StartCall("callTarget", TargetRead("refetch"))
          /\ UNCHANGED <<envVars, escaped, sigInputs, sigHashVars, sigSignVars, sigHelperVars>>
          /\ SigStep(Event("callTarget", "invoke"), {TargetRead("refetch")})

callTargetResolved(i, data) ==
  /\ page = "signature"
  /\ i \in 1..Len(calls["callTarget"])
  /\ targetResult' = IF data = UNDEFINED THEN NULL ELSE data
  /\ isCallingTarget' = FALSE
  /\ EndCall("callTarget", i)
  /\ UNCHANGED <<envVars, escaped, sigInputs, sigHashVars, sigSignVars, sigHelperVars,
                 targetError>>
  /\ SigStep(Event("callTarget", "resolved"), {})

callTargetRejected(i, error) ==
  /\ page = "signature"
  /\ i \in 1..Len(calls["callTarget"])
  /\ targetError' = getErrorMessage(error, "The call failed")
  /\ isCallingTarget' = FALSE
  /\ EndCall("callTarget", i)
  /\ UNCHANGED <<envVars, escaped, sigInputs, sigHashVars, sigSignVars, sigHelperVars,
                 targetResult>>
  /\ SigStep(Event("callTarget", "rejected"), {})

\* the wallet connects: useEffect([address]) copies the address
SigConnect ==
  /\ page \in SigPages
  /\ address = UNDEFINED
  /\ address' = WalletAddress
  /\ userAddress' = WalletAddress
  /\ UNCHANGED <<page, queryEnabled, provider, calls, escaped, message, hashMessageSaved,
                 rawKeccakHash, signature, helperAddress, targetAddress,
                 sigHashVars, sigSignVars, sigHelperVars, sigTargetVars>>
  /\ SigStep(Event("connect", "wallet"), {})

SigDisconnect ==
  /\ page \in SigPages
  /\ address # UNDEFINED
  /\ address' = UNDEFINED
  /\ UNCHANGED <<page, queryEnabled, provider, calls, escaped, sigVars>>
  /\ SigStep(Event("disconnect", "wallet"), {})

\* ------------------------- signature playground, signer / provider variant
\* options.signer: useSigner().data, present while a wallet is connected
signer == IF address # UNDEFINED THEN address ELSE UNDEFINED

\* the setters of this variant store the value as typed
EthUpdateHashMessage(v) ==
  /\ page = "signatureEthers"
  /\ v # hashMessageSaved
  /\ hashMessageSaved' = v
  /\ hashError' = NULL
  /\ UNCHANGED <<envVars, calls, escaped, message, rawKeccakHash, signature,
                 helperAddress, targetAddress, userAddress,
                 sigSignVars, sigHelperVars, sigTargetVars>>
  /\ SigStep(Event("setHashMessage", "input"), {})

EthUpdateSignature(v) ==
  /\ page = "signatureEthers"
  /\ v # signature
  /\ signature' = v
  /\ signError' = NULL
  /\ UNCHANGED <<envVars, calls, escaped, message, hashMessageSaved, rawKeccakHash,
                 helperAddress, targetAddress, userAddress, isSigning,
                 sigHashVars, sigHelperVars, sigTargetVars>>
  /\ SigStep(Event("setSignature", "input"), {})

EthUpdateHelperAddress(v) ==
  /\ page = "signatureEthers"
  /\ v # helperAddress
  /\ helperAddress' = v
  /\ helperError' = NULL
  /\ UNCHANGED <<envVars, calls, escaped, message, hashMessageSaved, rawKeccakHash,
                 signature, targetAddress, userAddress, helperResult, isCallingHelper,
                 sigHashVars, sigSignVars, sigTargetVars>>
  /\ SigStep(Event("setHelperAddress", "input"), {})

EthUpdateTargetAddress(v) ==
  /\ page = "signatureEthers"
  /\ v # targetAddress
  /\ targetAddress' = v
  /\ targetError' = NULL
  /\ UNCHANGED <<envVars, calls, escaped, message, hashMessageSaved, rawKeccakHash,
                 signature, helperAddress, userAddress, targetResult, isCallingTarget,
                 sigHashVars, sigSignVars, sigHelperVars>>
  /\ SigStep(Event("setTargetAddress", "input"), {})

EthUpdateUserAddress(v) ==
  /\ page = "signatureEthers"
  /\ v # userAddress
  /\ userAddress' = v
  /\ helperError' = NULL
  /\ UNCHANGED <<envVars, calls, escaped, message, hashMessageSaved, rawKeccakHash,
                 signature, helperAddress, targetAddress, helperResult, isCallingHelper,
                 sigHashVars, sigSignVars, sigTargetVars>>
  /\ SigStep(Event("setUserAddress", "input"), {})

\* the first early return of signMessage, NULL when it goes on to the signer
EthSignMessageProblem ==
  IF signer = UNDEFINED THEN "Signer is unavailable. Connect a wallet"
  ELSE IF message = "" THEN "Enter a message to sign"
  ELSE NULL

EthSignMessage ==
  /\ page = "signatureEthers"
  /\ Clickable("signMessage")
  /\ IF EthSignMessageProblem # NULL
     THEN /\ signError' = EthSignMessageProblem
          /\ UNCHANGED <<isSigning, calls>>
     ELSE /\ signError' = NULL
          /\ isSigning' = TRUE
          /\ StartCall("signMessage", [message |-> message, address |-> address])
  /\ UNCHANGED <<envVars, escaped, sigInputs, sigHashVars, sigHelperVars, sigTargetVars>>
  /\ SigStep(Event("signMessage",
                   IF EthSignMessageProblem # NULL THEN "invalid" ELSE "invoke"), {})

\* the calls new ethers.Contract(...) sends through the provider
EthHelperCall ==
  [fn |-> "isValidSignatureWithUser", by |-> "contract", address |-> helperAddress,
   hash |-> hashMessageSaved, signature |-> signature, user |-> userAddress]

EthTargetCall ==
  [fn |-> "isValidSignature", by |-> "contract", address |-> targetAddress,
   hash |-> hashMessageSaved, signature |-> signature, user |-> NULL]

\* the first early return of callHelper: the provider, then the validators
EthCallHelperProblem ==
  IF provider = {} THEN "Provider is not initialized" ELSE callHelperValidation

EthCallHelper ==
  /\ page = "signatureEthers"
  /\ Clickable("callHelper")
  /\ IF EthCallHelperProblem # NULL
     THEN /\ helperError' = EthCallHelperProblem
          /\ UNCHANGED <<helperResult, isCallingHelper, calls>>
          /\ SigStep(Event("callHelper", "invalid"), {})
     ELSE /\ isCallingHelper' = TRUE
          /\ helperError' = NULL
          /\ helperResult' = NULL
          /\ StartCall("callHelper", EthHelperCall)
          /\ SigStep(Event("callHelper", "invoke"), {EthHelperCall})
  /\ UNCHANGED <<envVars, escaped, sigInputs, sigHashVars, sigSignVars, sigTargetVars>>

\* contract.isValidSignatureWithUser resolved with a bytes4 value
EthCallHelperResolved(i, result) ==
  /\ page = "signatureEthers"
  /\ i \in 1..Len(calls["callHelper"])
  /\ helperResult' = result
  /\ isCallingHelper' = FALSE
  /\ EndCall("callHelper", i)
  /\ UNCHANGED <<envVars, escaped, sigInputs, sigHashVars, sigSignVars, sigTargetVars,
                 helperError>>
  /\ SigStep(Event("callHelper", "resolved"), {})

EthCallHelperRejected(i, error) ==
  /\ page = "signatureEthers"
  /\ i \in 1..Len(calls["callHelper"])
  /\ helperError' = MessageOrFallback(error, "The call failed")
  /\ isCallingHelper' = FALSE
  /\ EndCall("callHelper", i)
  /\ UNCHANGED <<envVars, escaped, sigInputs, sigHashVars, sigSignVars, sigTargetVars,
                 helperResult>>
  /\ SigStep(Event("callHelper", "rejected"), {})

\* the first early return of callTarget: the provider, then the validators
EthCallTargetProblem ==
  IF provider = {} THEN "Provider is not initialized" ELSE callTargetValidation

EthCallTarget ==
  /\ page = "signatureEthers"
  /\ Clickable("callTarget")
  /\ IF EthCallTargetProblem # NULL
     THEN /\ targetError' = EthCallTargetProblem
          /\ UNCHANGED <<targetResult, isCallingTarget, calls>>
          /\ SigStep(Event("callTarget", "invalid"), {})
     ELSE /\ isCallingTarget' = TRUE
          /\ targetError' = NULL
          /\ targetResult' = NULL
          /\ StartCall("callTarget", EthTargetCall)
          /\ SigStep(Event("callTarget", "invoke"), {EthTargetCall})
  /\ UNCHANGED <<envVars, escaped, sigInputs, sigHashVars, sigSignVars, sigHelperVars>>

EthCallTargetResolved(i, result) ==
  /\ page = "signatureEthers"
  /\ i \in 1..Len(calls["callTarget"])
  /\ targetResult' = result
  /\ isCallingTarget' = FALSE
  /\ EndCall("callTarget", i)
  /\ UNCHANGED <<envVars, escaped, sigInputs, sigHashVars, sigSignVars, sigHelperVars,
                 targetError>>
  /\ SigStep(Event("callTarget", "resolved"), {})

EthCallTargetRejected(i, error) ==
  /\ page = "signatureEthers"
  /\ i \in 1..Len(calls["callTarget"])
  /\ targetError' = MessageOrFallback(error, "The call failed")
  /\ isCallingTarget' = FALSE
  /\ EndCall("callTarget", i)
  /\ UNCHANGED <<envVars, escaped, sigInputs, sigHashVars, sigSignVars, sigHelperVars,
                 targetResult>>
  /\ SigStep(Event("callTarget", "rejected"), {})

SigNext ==
  \/ \E v \in MessageTyped : SetMessage(v)
  \/ \E v \in HashTyped : updateHashMessage(v)
  \/ \E v \in SignatureTyped : updateSignature(v)
  \/ \E v \in AddressTyped : updateHelperAddress(v)
  \/ \E v \in AddressTyped : updateTargetAddress(v)
  \/ \E v \in AddressTyped : updateUserAddress(v)
  \/ computeHashes
  \/ signMessage
  \/ \E i \in 1..MaxInflight : signMessageResolved(i)
  \/ \E i \in 1..MaxInflight, e \in CallErrors : signMessageRejected(i, e)
  \/ callHelper
  \/ \E i \in 1..MaxInflight, d \in CallResults \cup {UNDEFINED} : callHelperResolved(i, d)
  \/ \E i \in 1..MaxInflight, e \in CallErrors : callHelperRejected(i, e)
  \/ callTarget
  \/ \E i \in 1..MaxInflight, d \in CallResults \cup {UNDEFINED} : callTargetResolved(i, d)
  \/ \E i \in 1..MaxInflight, e \in CallErrors : callTargetRejected(i, e)
  \/ SigConnect
  \/ SigDisconnect
  \/ \E v \in HashTyped : EthUpdateHashMessage(v)
  \/ \E v \in SignatureTyped : EthUpdateSignature(v)
  \/ \E v \in AddressTyped : EthUpdateHelperAddress(v)
  \/ \E v \in AddressTyped : EthUpdateTargetAddress(v)
  \/ \E v \in AddressTyped : EthUpdateUserAddress(v)
  \/ EthSignMessage
  \/ EthCallHelper
  \/ \E i \in 1..MaxInflight, d \in CallResults : EthCallHelperResolved(i, d)
  \/ \E i \in 1..MaxInflight, e \in CallErrors : EthCallHelperRejected(i, e)
  \/ EthCallTarget
  \/ \E i \in 1..MaxInflight, d \in CallResults : EthCallTargetResolved(i, d)
  \/ \E i \in 1..MaxInflight, e \in CallErrors : EthCallTargetRejected(i, e)

\* ------------------------------------------- bytecode / typed-data playground
Mainnet == 1
Sepolia == 11155111
AVAILABLE_CHAINS == <<Mainnet, Sepolia>>

\* usePublicClient({ chainId }): the client of the chain, none ({}) for a chain
\* the config lacks
publicClient == IF chainId \in configuredChains THEN {chainId} ELSE {}
\* useWalletClient({ chainId }).data: present once a wallet is connected
walletClient == IF address # UNDEFINED THEN address ELSE UNDEFINED

\* viem isHex(value, { strict: false }): value.startsWith("0x")
isHexLoose(s) ==
  LET cs == Chars(s) IN Len(cs) >= 2 /\ cs[1] = "0" /\ cs[2] = "x"

\* normalizeBytes(value, size?): size is {n} when given and {} when omitted;
\* the test made for a given size is the same loose isHex test
normalizeBytes(value, size) ==
  IF value = "" THEN FALSE
  ELSE IF ~isHexLoose(value) THEN FALSE
  ELSE IF size # {} /\ ~isHexLoose(value) THEN FALSE
  ELSE TRUE

\* viem isAddress: /^0x[a-fA-F0-9]{40}$/, lower-case or checksum-valid
viemIsAddress(s) ==
  LET cs == Chars(s)
  IN /\ Len(cs) = 2 + AddressHexDigits
     /\ IsHexChars(cs)
     /\ (ToLowerCase(cs) = cs \/ s \in ChecksummedAddresses)

\* a contract read whose arguments ABI-encode, so that it reaches the chain
Encodable(r) ==
  /\ isHexStringLen(r.hash, HashBytes)
  /\ r.signature # UNDEFINED /\ isHexString(r.signature)
  /\ viemIsAddress(r.address)
  /\ r.user # NULL => viemIsAddress(r.user)

\* viem getAddress: the checksummed form of an address
getAddress(a) ==
  IF a = DEFAULT_TARGET_ADDRESS THEN "0x3C7A..5dD4" ELSE a

\* JSON.parse of the texts of this model
JsonParses(text) == text # "{bad"
ParsedKeys(text) ==
  CASE text = "types:sample" -> {"EIP712Domain", "PermitSingle", "PermitDetails"}
    [] text \in {"domain:1", "domain:11155111"} -> {"name", "chainId", "verifyingContract"}
    [] text = "message:sample" -> {"details", "spender", "sigDeadline"}
    [] OTHER -> {}

\* members every parsed JSON object inherits from Object.prototype
ObjectPrototypeKeys == {"toString", "constructor"}

\* typedData[key] is truthy: key is an own key of the parsed types (the type
\* lists of this model are non-empty arrays) or an inherited member
HasTruthyProperty(text, key) == key \in ParsedKeys(text) \cup ObjectPrototypeKeys

\* buildSamplePermitSingleTypedData(chainId)
buildSamplePermitSingleTypedData(c) ==
  [domain |-> IF c = Mainnet THEN "domain:1" ELSE "domain:11155111",
   types |-> "types:sample",
   primaryType |-> "PermitSingle",
   message |-> "message:sample"]

\* viem hashTypedData of typed data that encodes
hashTypedData(td) ==
  CASE td.domain = "domain:1" -> "digest:1"
    [] td.domain = "domain:11155111" -> "digest:11155111"
    [] OTHER -> "digest:{}"

\* typed data viem can encode and a signature it can recover from
Recoverable(c) ==
  /\ c.primaryType \in ParsedKeys(c.types)
  /\ c.message = "message:sample"
  /\ isHexStringLen(c.signature, SignatureBytes)

\* the first parse / check of generatePayload and recoverSigner that throws
typedDataProblem ==
  IF ~JsonParses(domainInput) THEN "Domain must be valid JSON"
  ELSE IF ~JsonParses(typesInput) THEN "Types must be valid JSON"
  ELSE IF ~JsonParses(messageInput) THEN "Message must be valid JSON"
  ELSE IF primaryType = "" THEN "Specify primaryType"
  ELSE NULL

ByteStep(e, issued) ==
  /\ UNCHANGED <<sigVars, delVars>>
  /\ Step(e, issued)

DomainTyped == {"{bad"}
TypesTyped == {"types:sample"}
MessageInputTyped == {"message:sample"}
PrimaryTypeTyped == {"PermitSingle", "toString"}
SignatureInputTyped == {"sig:typed"}
AddressInputTyped == {"0xabc", DEFAULT_TARGET_ADDRESS}
HashInputTyped == {"digest:1", "0x12"}
Erc1271SignatureTyped == {"zz"}
Bytecodes == {UNDEFINED, "0x", "0x6080"}

\* a chain switch whose effect leaves the verification error in place
setChainIdKeepingErc1271Error(c) ==
  /\ page = "bytecode"
  /\ c # chainId
  /\ chainId' = c
  /\ bytecodeResult' = {}
  /\ bytecodeError' = NULL
  /\ erc1271Result' = NULL
  /\ bytecodeOrigin' = {}
  /\ UNCHANGED <<envVars, calls, escaped, configuredChains, typedInputs, signatureInput,
                 payloadVars, autogenerateError, typedDataError, isRecovering,
                 isAutogenerating, claimedSigner, addressInput, isFetchingBytecode,
                 hashInput, erc1271Signature, isChecking1271, erc1271Error,
                 erc1271Origin>>
  /\ ByteStep(Event("setChainId", "input"), {})

\* useEffect([chainId]) runs after the render that follows setChainId
setChainId(c) ==
  /\ page = "bytecode"
  /\ c # chainId
  /\ chainId' = c
  /\ bytecodeResult' = {}
  /\ bytecodeError' = NULL
  /\ erc1271Result' = NULL
  /\ erc1271Error' = NULL
  /\ bytecodeOrigin' = {}
  /\ erc1271Origin' = {}
  /\ UNCHANGED <<envVars, calls, escaped, configuredChains, typedInputs, signatureInput,
                 payloadVars, autogenerateError, typedDataError, isRecovering,
                 isAutogenerating, claimedSigner, addressInput, isFetchingBytecode,
                 hashInput, erc1271Signature, isChecking1271>>
  /\ ByteStep(Event("setChainId", "input"), {})

\* input handlers that leave the payload of the earlier inputs in place
handleTypedInputKeepingPayload(field, v) ==
  /\ page = "bytecode"
  /\ CASE field = "domain" -> v # domainInput /\ domainInput' = v
                              /\ UNCHANGED <<typesInput, messageInput, primaryType>>
       [] field = "types" -> v # typesInput /\ typesInput' = v
                              /\ UNCHANGED <<domainInput, messageInput, primaryType>>
       [] field = "message" -> v # messageInput /\ messageInput' = v
                              /\ UNCHANGED <<domainInput, typesInput, primaryType>>
       [] field = "primaryType" -> v # primaryType /\ primaryType' = v
                              /\ UNCHANGED <<domainInput, typesInput, messageInput>>
  /\ UNCHANGED payloadForSigning
  /\ payloadError' = NULL
  /\ autogenerateError' = NULL
  /\ UNCHANGED <<envVars, calls, escaped, chainId, configuredChains, signatureInput,
                 typedDataError, isRecovering, isAutogenerating, claimedSigner,
                 addressInput, bytecodeVars, isFetchingBytecode, hashInput,
                 erc1271Signature, erc1271Vars, isChecking1271>>
  /\ ByteStep(Event("setTypedInput", "input"), {})

\* handleDomainInput, handleTypesInput, handleMessageInput, handlePrimaryType
handleTypedInput(field, v) ==
  /\ page = "bytecode"
  /\ CASE field = "domain" -> v # domainInput /\ domainInput' = v
                              /\ UNCHANGED <<typesInput, messageInput, primaryType>>
       [] field = "types" -> v # typesInput /\ typesInput' = v
                              /\ UNCHANGED <<domainInput, messageInput, primaryType>>
       [] field = "message" -> v # messageInput /\ messageInput' = v
                              /\ UNCHANGED <<domainInput, typesInput, primaryType>>
       [] field = "primaryType" -> v # primaryType /\ primaryType' = v
                              /\ UNCHANGED <<domainInput, typesInput, messageInput>>
  /\ payloadForSigning' = {}
  /\ payloadError' = NULL
  /\ autogenerateError' = NULL
  /\ UNCHANGED <<envVars, calls, escaped, chainId, configuredChains, signatureInput,
                 typedDataError, isRecovering, isAutogenerating, claimedSigner,
                 addressInput, bytecodeVars, isFetchingBytecode, hashInput,
                 erc1271Signature, erc1271Vars, isChecking1271>>
  /\ ByteStep(Event("setTypedInput", "input"), {})

handleSignatureInput(v) ==
  /\ page = "bytecode"
  /\ v # signatureInput
  /\ signatureInput' = v
  /\ autogenerateError' = NULL
  /\ UNCHANGED <<envVars, calls, escaped, chainId, configuredChains, typedInputs,
                 payloadVars, typedDataError, isRecovering, isAutogenerating,
                 claimedSigner, addressInput, bytecodeVars, isFetchingBytecode,
                 hashInput, erc1271Signature, erc1271Vars, isChecking1271>>
  /\ ByteStep(Event("setSignatureInput", "input"), {})

handleAddressInput(v) ==
  /\ page = "bytecode"
  /\ v # addressInput
  /\ addressInput' = v
  /\ autogenerateError' = NULL
  /\ UNCHANGED <<envVars, calls, escaped, chainId, configuredChains, typedInputs,
                 signatureInput, payloadVars, typedDataError, isRecovering,
                 isAutogenerating, claimedSigner, bytecodeVars, isFetchingBytecode,
                 hashInput, erc1271Signature, erc1271Vars, isChecking1271>>
  /\ ByteStep(Event("setAddressInput", "input"), {})

\* actions.setHashInput is the state setter itself
setHashInput(v) ==
  /\ page = "bytecode"
  /\ v # hashInput
  /\ hashInput' = v
  /\ UNCHANGED <<envVars, calls, escaped, chainId, configuredChains, typedInputs,
                 signatureInput, payloadVars, autogenerateError, typedDataError,
                 isRecovering, isAutogenerating, claimedSigner, addressInput,
                 bytecodeVars, isFetchingBytecode, erc1271Signature, erc1271Vars,
                 isChecking1271>>
  /\ ByteStep(Event("setHashInput", "input"), {})

\* actions.setErc1271Signature is the state setter itself
setErc1271Signature(v) ==
  /\ page = "bytecode"
  /\ v # erc1271Signature
  /\ erc1271Signature' = v
  /\ UNCHANGED <<envVars, calls, escaped, chainId, configuredChains, typedInputs,
                 signatureInput, payloadVars, autogenerateError, typedDataError,
                 isRecovering, isAutogenerating, claimedSigner, addressInput,
                 bytecodeVars, isFetchingBytecode, hashInput, erc1271Vars,
                 isChecking1271>>
  /\ ByteStep(Event("setErc1271Signature", "input"), {})

generatePayload ==
  /\ page = "bytecode"
  /\ autogenerateError' = NULL
  /\ IF typedDataProblem # NULL
     THEN /\ payloadError' = typedDataProblem
          /\ payloadForSigning' = {}
     ELSE IF ~HasTruthyProperty(typesInput, primaryType)
     THEN /\ payloadError' = "The provided primaryType is missing in types"
          /\ payloadForSigning' = {}
     ELSE /\ payloadError' = NULL
          /\ payloadForSigning' = {[types |-> typesInput, domain |-> domainInput,
                                    primaryType |-> primaryType,
                                    message |-> messageInput]}
  /\ UNCHANGED <<envVars, calls, escaped, chainId, configuredChains, typedInputs,
                 signatureInput, typedDataError, isRecovering, isAutogenerating,
                 claimedSigner, addressInput, bytecodeVars, isFetchingBytecode,
                 hashInput, erc1271Signature, erc1271Vars, isChecking1271>>
  /\ ByteStep(Event("generatePayload", "done"), {})

autogenerateTypedData ==
  /\ page = "bytecode"
  /\ Clickable("autogenerateTypedData")
  /\ typedDataError' = NULL
  /\ payloadError' = NULL
  /\ payloadForSigning' = {}
  /\ claimedSigner' = NULL
  /\ addressInput' = ""
  /\ bytecodeResult' = {}
  /\ bytecodeError' = NULL
  /\ erc1271Result' = NULL
  /\ erc1271Error' = NULL
  /\ bytecodeOrigin' = {}
  /\ erc1271Origin' = {}
  /\ IF walletClient = UNDEFINED \/ address = UNDEFINED
     THEN /\ autogenerateError' = "Connect a wallet to sign"
          /\ UNCHANGED <<isAutogenerating, calls>>
     ELSE /\ autogenerateError' = NULL
          /\ isAutogenerating' = TRUE
          /\ StartCall("autogenerateTypedData",
                       [typedData |-> buildSamplePermitSingleTypedData(chainId)])
  /\ UNCHANGED <<envVars, escaped, chainId, configuredChains, typedInputs, signatureInput,
                 isRecovering, isFetchingBytecode, hashInput, erc1271Signature,
                 isChecking1271>>
  /\ ByteStep(Event("autogenerateTypedData",
                    IF walletClient = UNDEFINED \/ address = UNDEFINED
                    THEN "invalid" ELSE "invoke"), {})

\* walletClient.signTypedData resolved
autogenerateTypedDataResolved(i) ==
  /\ page = "bytecode"
  /\ i \in 1..Len(calls["autogenerateTypedData"])
  /\ LET td == calls["autogenerateTypedData"][i].typedData
     IN /\ domainInput' = td.domain
        /\ typesInput' = td.types
        /\ messageInput' = td.message
        /\ primaryType' = td.primaryType
        /\ signatureInput' = "sig:typed"
        /\ erc1271Signature' = "sig:typed"
        /\ payloadForSigning' = {[types |-> td.types, domain |-> td.domain,
                                  primaryType |-> td.primaryType, message |-> td.message]}
        /\ hashInput' = hashTypedData(td)
  /\ isAutogenerating' = FALSE
  /\ EndCall("autogenerateTypedData", i)
  /\ UNCHANGED <<envVars, escaped, chainId, configuredChains, payloadError,
                 autogenerateError, typedDataError, isRecovering, claimedSigner,
                 addressInput, bytecodeVars, isFetchingBytecode, erc1271Vars,
                 isChecking1271>>
  /\ ByteStep(Event("autogenerateTypedData", "resolved"), {})

autogenerateTypedDataRejected(i, error) ==
  /\ page = "bytecode"
  /\ i \in 1..Len(calls["autogenerateTypedData"])
  /\ autogenerateError' = getErrorMessage(error, "Unknown error")
  /\ isAutogenerating' = FALSE
  /\ EndCall("autogenerateTypedData", i)
  /\ UNCHANGED <<envVars, escaped, chainId, configuredChains, typedInputs, signatureInput,
                 payloadVars, typedDataError, isRecovering, claimedSigner, addressInput,
                 bytecodeVars, isFetchingBytecode, hashInput, erc1271Signature,
                 erc1271Vars, isChecking1271>>
  /\ ByteStep(Event("autogenerateTypedData", "rejected"), {})

\* the first check of recoverSigner that throws before the recovery call
recoverSignerProblem ==
  IF typedDataProblem # NULL THEN typedDataProblem
  ELSE IF ~normalizeBytes(signatureInput, {SignatureBytes})
       THEN "Signature must be a valid 65-byte hex string"
  ELSE NULL

recoverSigner ==
  /\ page = "bytecode"
  /\ Clickable("recoverSigner")
  /\ IF recoverSignerProblem # NULL
     THEN /\ typedDataError' = recoverSignerProblem
          /\ UNCHANGED <<isRecovering, calls>>
     ELSE /\ typedDataError' = NULL
          /\ isRecovering' = TRUE
          /\ StartCall("recoverSigner",
                       [domain |-> domainInput, types |-> typesInput,
                        primaryType |-> primaryType, message |-> messageInput,
                        signature |-> signatureInput])
  /\ UNCHANGED <<envVars, escaped, chainId, configuredChains, typedInputs, signatureInput,
                 payloadVars, autogenerateError, isAutogenerating, claimedSigner,
                 addressInput, bytecodeVars, isFetchingBytecode, hashInput,
                 erc1271Signature, erc1271Vars, isChecking1271>>
  /\ ByteStep(Event("recoverSigner",
                    IF recoverSignerProblem # NULL THEN "invalid" ELSE "invoke"), {})

\* recoverTypedDataAddress resolved: it does so only for typed data that
\* encodes and a 65-byte signature
recoverSignerResolved(i) ==
  /\ page = "bytecode"
  /\ i \in 1..Len(calls["recoverSigner"])
  /\ LET c == calls["recoverSigner"][i]
     IN /\ Recoverable(c)
        /\ claimedSigner' = RecoveredAddress
        /\ addressInput' = RecoveredAddress
        /\ erc1271Signature' = c.signature
        /\ hashInput' = hashTypedData(c)
  /\ bytecodeResult' = {}
  /\ bytecodeError' = NULL
  /\ erc1271Result' = NULL
  /\ erc1271Error' = NULL
  /\ bytecodeOrigin' = {}
  /\ erc1271Origin' = {}
  /\ isRecovering' = FALSE
  /\ EndCall("recoverSigner", i)
  /\ UNCHANGED <<envVars, escaped, chainId, configuredChains, typedInputs, signatureInput,
                 payloadVars, autogenerateError, typedDataError, isAutogenerating,
                 isFetchingBytecode, isChecking1271>>
  /\ ByteStep(Event("recoverSigner", "resolved"), {})

\* a catch block that also forgets the signer recovered earlier
recoverSignerRejectedClearingSigner(i, error) ==
  /\ page = "bytecode"
  /\ i \in 1..Len(calls["recoverSigner"])
  /\ typedDataError' = getErrorMessage(error, "Unknown error")
  /\ isRecovering' = FALSE
  /\ claimedSigner' = NULL
  /\ EndCall("recoverSigner", i)
  /\ UNCHANGED <<envVars, escaped, chainId, configuredChains, typedInputs, signatureInput,
                 payloadVars, autogenerateError, isAutogenerating,
                 addressInput, bytecodeVars, isFetchingBytecode, hashInput,
                 erc1271Signature, erc1271Vars, isChecking1271>>
  /\ ByteStep(Event("recoverSigner", "rejected"), {})

recoverSignerRejected(i, error) ==
  /\ page = "bytecode"
  /\ i \in 1..Len(calls["recoverSigner"])
  /\ typedDataError' = getErrorMessage(error, "Unknown error")
  /\ isRecovering' = FALSE
  /\ EndCall("recoverSigner", i)
  /\ UNCHANGED <<envVars, escaped, chainId, configuredChains, typedInputs, signatureInput,
                 payloadVars, autogenerateError, isAutogenerating, claimedSigner,
                 addressInput, bytecodeVars, isFetchingBytecode, hashInput,
                 erc1271Signature, erc1271Vars, isChecking1271>>
  /\ ByteStep(Event("recoverSigner", "rejected"), {})

\* a fetchBytecode that looks at the address before the public client
fetchBytecodeProblemAddressFirst ==
  IF addressInput = "" THEN "Enter an address to inspect"
  ELSE IF ~viemIsAddress(addressInput) THEN "Address must be valid"
  ELSE IF publicClient = {} THEN "The public client has not been initialized yet"
  ELSE NULL

\* the first failing check of fetchBytecode, NULL when all pass
fetchBytecodeProblem ==
  IF publicClient = {} THEN "The public client has not been initialized yet"
  ELSE IF addressInput = "" THEN "Enter an address to inspect"
  ELSE IF ~viemIsAddress(addressInput) THEN "Address must be valid"
  ELSE NULL

\* a fetchBytecode that leaves the earlier result in place
fetchBytecodeKeepingResult ==
  /\ page = "bytecode"
  /\ Clickable("fetchBytecode")
  /\ UNCHANGED bytecodeResult
  /\ IF fetchBytecodeProblem # NULL
     THEN /\ bytecodeError' = fetchBytecodeProblem
          /\ bytecodeOrigin' = {chainId}
          /\ UNCHANGED <<isFetchingBytecode, calls>>
     ELSE /\ bytecodeError' = NULL
          /\ bytecodeOrigin' = {}
          /\ isFetchingBytecode' = TRUE
          /\ StartCall("fetchBytecode",
                       [client |-> publicClient, address |-> getAddress(addressInput)])
  /\ UNCHANGED <<envVars, escaped, chainId, configuredChains, typedInputs, signatureInput,
                 payloadVars, autogenerateError, typedDataError, isRecovering,
                 isAutogenerating, claimedSigner, addressInput, hashInput,
                 erc1271Signature, erc1271Vars, isChecking1271>>
  /\ ByteStep(Event("fetchBytecode",
                    IF fetchBytecodeProblem # NULL THEN "invalid" ELSE "invoke"), {})

fetchBytecode ==
  /\ page = "bytecode"
  /\ Clickable("fetchBytecode")
  /\ bytecodeResult' = {}
  /\ IF fetchBytecodeProblem # NULL
     THEN /\ bytecodeError' = fetchBytecodeProblem
          /\ bytecodeOrigin' = {chainId}
          /\ UNCHANGED <<isFetchingBytecode, calls>>
     ELSE /\ bytecodeError' = NULL
          /\ bytecodeOrigin' = {}
          /\ isFetchingBytecode' = TRUE
          /\ StartCall("fetchBytecode",
                       [client |-> publicClient, address |-> getAddress(addressInput)])
  /\ UNCHANGED <<envVars, escaped, chainId, configuredChains, typedInputs, signatureInput,
                 payloadVars, autogenerateError, typedDataError, isRecovering,
                 isAutogenerating, claimedSigner, addressInput, hashInput,
                 erc1271Signature, erc1271Vars, isChecking1271>>
  /\ ByteStep(Event("fetchBytecode",
                    IF fetchBytecodeProblem # NULL THEN "invalid" ELSE "invoke"), {})

\* a fetchBytecode that reports the number of hex digits as the size
fetchBytecodeResolvedCountingDigits(i, bytecode) ==
  /\ page = "bytecode"
  /\ i \in 1..Len(calls["fetchBytecode"])
  /\ LET c == calls["fetchBytecode"][i]
         nonEmpty == bytecode # UNDEFINED /\ bytecode # "0x"
     IN /\ bytecodeResult' =
             {[address |-> c.address,
               bytecode |-> IF bytecode = UNDEFINED THEN NULL ELSE bytecode,
               size |-> IF nonEmpty THEN Len(Chars(bytecode)) - 2 ELSE 0,
               isContract |-> nonEmpty]}
        /\ bytecodeOrigin' = c.client
  /\ isFetchingBytecode' = FALSE
  /\ EndCall("fetchBytecode", i)
  /\ UNCHANGED <<envVars, escaped, chainId, configuredChains, typedInputs, signatureInput,
                 payloadVars, autogenerateError, typedDataError, isRecovering,
                 isAutogenerating, claimedSigner, addressInput, bytecodeError, hashInput,
                 erc1271Signature, erc1271Vars, isChecking1271>>
  /\ ByteStep(Event("fetchBytecode", "resolved"), {})

\* publicClient.getCode resolved with the bytecode (undefined for none)
fetchBytecodeResolved(i, bytecode) ==
  /\ page = "bytecode"
  /\ i \in 1..Len(calls["fetchBytecode"])
  /\ LET c == calls["fetchBytecode"][i]
         nonEmpty == bytecode # UNDEFINED /\ bytecode # "0x"
     IN /\ bytecodeResult' =
             {[address |-> c.address,
               bytecode |-> IF bytecode = UNDEFINED THEN NULL ELSE bytecode,
               size |-> IF nonEmpty THEN (Len(Chars(bytecode)) - 2) \div 2 ELSE 0,
               isContract |-> nonEmpty]}
        /\ bytecodeOrigin' = c.client
  /\ isFetchingBytecode' = FALSE
  /\ EndCall("fetchBytecode", i)
  /\ UNCHANGED <<envVars, escaped, chainId, configuredChains, typedInputs, signatureInput,
                 payloadVars, autogenerateError, typedDataError, isRecovering,
                 isAutogenerating, claimedSigner, addressInput, bytecodeError, hashInput,
                 erc1271Signature, erc1271Vars, isChecking1271>>
  /\ ByteStep(Event("fetchBytecode", "resolved"), {})

fetchBytecodeRejected(i, error) ==
  /\ page = "bytecode"
  /\ i \in 1..Len(calls["fetchBytecode"])
  /\ bytecodeError' = getErrorMessage(error, "Unknown error")
  /\ bytecodeOrigin' = calls["fetchBytecode"][i].client
  /\ isFetchingBytecode' = FALSE
  /\ EndCall("fetchBytecode", i)
  /\ UNCHANGED <<envVars, escaped, chainId, configuredChains, typedInputs, signatureInput,
                 payloadVars, autogenerateError, typedDataError, isRecovering,
                 isAutogenerating, claimedSigner, addressInput, bytecodeResult, hashInput,
                 erc1271Signature, erc1271Vars, isChecking1271>>
  /\ ByteStep(Event("fetchBytecode", "rejected"), {})

\* the first failing check of checkErc1271, NULL when all pass
checkErc1271Problem ==
  IF publicClient = {} THEN "The public client has not been initialized yet"
  ELSE IF addressInput = "" \/ ~viemIsAddress(addressInput)
       THEN "Enter a valid address to call"
  ELSE IF ~normalizeBytes(hashInput, {HashBytes}) THEN "hash must be a bytes32 hex string"
  ELSE IF ~normalizeBytes(erc1271Signature, {}) THEN "signature must be a hex string"
  ELSE NULL

Erc1271Read ==
  [fn |-> "isValidSignature", by |-> "checkErc1271",
   address |-> getAddress(addressInput), hash |-> hashInput,
   signature |-> erc1271Signature, user |-> NULL]

checkErc1271 ==
  /\ page = "bytecode"
  /\ Clickable("checkErc1271")
  /\ erc1271Result' = NULL
  /\ IF checkErc1271Problem # NULL
     THEN /\ erc1271Error' = checkErc1271Problem
          /\ erc1271Origin' = {chainId}
          /\ UNCHANGED <<isChecking1271, calls>>
          /\ UNCHANGED <<envVars, escaped, chainId, configuredChains, typedInputs,
                         signatureInput, payloadVars, autogenerateError, typedDataError,
                         isRecovering, isAutogenerating, claimedSigner, addressInput,
                         bytecodeVars, isFetchingBytecode, hashInput, erc1271Signature>>
          /\ ByteStep(Event("checkErc1271", "invalid"), {})
     ELSE /\ erc1271Error' = NULL
          /\ erc1271Origin' = {}
          /\ isChecking1271' = TRUE
          /\ StartCall("checkErc1271", [client |-> publicClient, read |-> Erc1271Read])
          /\ UNCHANGED <<envVars, escaped, chainId, configuredChains, typedInputs,
                         signatureInput, payloadVars, autogenerateError, typedDataError,
                         isRecovering, isAutogenerating, claimedSigner, addressInput,
                         bytecodeVars, isFetchingBytecode, hashInput, erc1271Signature>>
          /\ ByteStep(Event("checkErc1271", "invoke"), {Erc1271Read})

\* publicClient.readContract resolved with the bytes4 the contract returned;
\* it rejects before any request when its arguments do not encode
checkErc1271Resolved(i, result) ==
  /\ page = "bytecode"
  /\ i \in 1..Len(calls["checkErc1271"])
  /\ Encodable(calls["checkErc1271"][i].read)
  /\ erc1271Result' = result
  /\ erc1271Origin' = calls["checkErc1271"][i].client
  /\ isChecking1271' = FALSE
  /\ EndCall("checkErc1271", i)
  /\ UNCHANGED <<envVars, escaped, chainId, configuredChains, typedInputs, signatureInput,
                 payloadVars, autogenerateError, typedDataError, isRecovering,
                 isAutogenerating, claimedSigner, addressInput, bytecodeVars,
                 isFetchingBytecode, hashInput, erc1271Signature, erc1271Error>>
  /\ ByteStep(Event("checkErc1271", "resolved"), {})

checkErc1271Rejected(i, error) ==
  /\ page = "bytecode"
  /\ i \in 1..Len(calls["checkErc1271"])
  /\ erc1271Error' = getErrorMessage(error, "Unknown error")
  /\ erc1271Origin' = calls["checkErc1271"][i].client
  /\ isChecking1271' = FALSE
  /\ EndCall("checkErc1271", i)
  /\ UNCHANGED <<envVars, escaped, chainId, configuredChains, typedInputs, signatureInput,
                 payloadVars, autogenerateError, typedDataError, isRecovering,
                 isAutogenerating, claimedSigner, addressInput, bytecodeVars,
                 isFetchingBytecode, hashInput, erc1271Signature, erc1271Result>>
  /\ ByteStep(Event("checkErc1271", "rejected"), {})

ByteConnect ==
  /\ page = "bytecode"
  /\ address = UNDEFINED
  /\ address' = WalletAddress
  /\ UNCHANGED <<page, queryEnabled, provider, calls, escaped, byteVars>>
  /\ ByteStep(Event("connect", "wallet"), {})

ByteDisconnect ==
  /\ page = "bytecode"
  /\ address # UNDEFINED
  /\ address' = UNDEFINED
  /\ UNCHANGED <<page, queryEnabled, provider, calls, escaped, byteVars>>
  /\ ByteStep(Event("disconnect", "wallet"), {})

ByteNext ==
  \/ \E c \in {Mainnet, Sepolia} : setChainId(c)
  \/ \E v \in DomainTyped : handleTypedInput("domain", v)
  \/ \E v \in TypesTyped : handleTypedInput("types", v)
  \/ \E v \in MessageInputTyped : handleTypedInput("message", v)
  \/ \E v \in PrimaryTypeTyped : handleTypedInput("primaryType", v)
  \/ \E v \in SignatureInputTyped : handleSignatureInput(v)
  \/ \E v \in AddressInputTyped : handleAddressInput(v)
  \/ \E v \in HashInputTyped : setHashInput(v)
  \/ \E v \in Erc1271SignatureTyped : setErc1271Signature(v)
  \/ generatePayload
  \/ autogenerateTypedData
  \/ \E i \in 1..MaxInflight : autogenerateTypedDataResolved(i)
  \/ \E i \in 1..MaxInflight, e \in CallErrors : autogenerateTypedDataRejected(i, e)
  \/ recoverSigner
  \/ \E i \in 1..MaxInflight : recoverSignerResolved(i)
  \/ \E i \in 1..MaxInflight, e \in CallErrors : recoverSignerRejected(i, e)
  \/ fetchBytecode
  \/ \E i \in 1..MaxInflight, b \in Bytecodes : fetchBytecodeResolved(i, b)
  \/ \E i \in 1..MaxInflight, e \in CallErrors : fetchBytecodeRejected(i, e)
  \/ checkErc1271
  \/ \E i \in 1..MaxInflight, r \in CallResults : checkErc1271Resolved(i, r)
  \/ \E i \in 1..MaxInflight, e \in CallErrors : checkErc1271Rejected(i, e)
  \/ ByteConnect
  \/ ByteDisconnect

ByteInit ==
  /\ chainId = AVAILABLE_CHAINS[1]
  /\ domainInput = "{}"
  /\ typesInput = "{}"
  /\ messageInput = "{}"
  /\ primaryType = ""
  /\ signatureInput = "0x"
  /\ payloadForSigning = {}
  /\ payloadError = NULL
  /\ autogenerateError = NULL
  /\ typedDataError = NULL
  /\ isRecovering = FALSE
  /\ isAutogenerating = FALSE
  /\ claimedSigner = NULL
  /\ addressInput = ""
  /\ bytecodeResult = {}
  /\ bytecodeError = NULL
  /\ isFetchingBytecode = FALSE
  /\ hashInput = ""
  /\ erc1271Signature = "0x"
  /\ erc1271Result = NULL
  /\ erc1271Error = NULL
  /\ isChecking1271 = FALSE
  /\ bytecodeOrigin = {}
  /\ erc1271Origin = {}

\* --------------------------------------------------- delegation playgrounds
\* the contract the UI-only playground starts with
DelegatorImplAddress == "0x63c0..e32B"

DelegateTyped == {" 0x12 ", DEFAULT_TARGET_ADDRESS}

\* the last conjunct of every step of the delegation playgrounds
DelStep(e) ==
  /\ UNCHANGED <<sigVars, byteVars, d2Inputs>>
  /\ Step(e, {})

\* sanitizeContractAddress
sanitizeContractAddress(value) == Trim(value)

setDelegateContract(v) ==
  /\ page \in {"delegation", "delegationUi"}
  /\ v # delegateContract
  /\ delegateContract' = v
  /\ UNCHANGED <<envVars, calls, escaped, walletClientData, delegateVars,
                 undelegateContract, undelegateVars>>
  /\ DelStep(Event("setDelegateContract", "input"))

setUndelegateContract(v) ==
  /\ page = "delegation"
  /\ v # undelegateContract
  /\ undelegateContract' = v
  /\ UNCHANGED <<envVars, calls, escaped, walletClientData, delegateContract,
                 delegateVars, undelegateVars>>
  /\ DelStep(Event("setUndelegateContract", "input"))

\* a handler that goes to the wallet without looking for the wallet client
delegationProblemWithoutWalletCheck(contract, invalidMessage) ==
  IF ~viemIsAddress(sanitizeContractAddress(contract)) THEN invalidMessage ELSE NULL

\* the first early return of handleDelegate / handleUndelegate
delegationProblem(contract, invalidMessage) ==
  IF address = UNDEFINED \/ walletClientData = UNDEFINED
  THEN "Wallet is not connected or does not support wallet_sendCalls"
  ELSE IF ~viemIsAddress(sanitizeContractAddress(contract)) THEN invalidMessage
  ELSE NULL

handleDelegate ==
  /\ page = "delegation"
  /\ Clickable("handleDelegate")
  /\ LET problem == delegationProblem(delegateContract,
                                      "Enter a valid contract address to delegate to")
     IN IF problem # NULL
        THEN /\ delegateError' = problem
             /\ delegateStatus' = "error"
             /\ UNCHANGED <<delegateResponse, calls>>
             /\ DelStep(Event("handleDelegate", "invalid"))
        ELSE /\ delegateStatus' = "pending"
             /\ delegateError' = NULL
             /\ delegateResponse' = NULL
             /\ StartCall("handleDelegate",
                          [from |-> address,
                           delegate |-> sanitizeContractAddress(delegateContract)])
             /\ DelStep(Event("handleDelegate", "invoke"))
  /\ UNCHANGED <<envVars, escaped, walletClientData, delegateContract,
                 undelegateContract, undelegateVars>>

\* client.request({ method: "wallet_sendCalls" }) resolved
handleDelegateResolved(i) ==
  /\ page = "delegation"
  /\ i \in 1..Len(calls["handleDelegate"])
  /\ delegateStatus' = "success"
  /\ delegateResponse' = "response:sendCalls"
  /\ EndCall("handleDelegate", i)
  /\ UNCHANGED <<envVars, escaped, walletClientData, delegateContract, delegateError,
                 undelegateContract, undelegateVars>>
  /\ DelStep(Event("handleDelegate", "resolved"))

handleDelegateRejected(i, error) ==
  /\ page = "delegation"
  /\ i \in 1..Len(calls["handleDelegate"])
  /\ delegateStatus' = "error"
  /\ delegateError' = MessageOrFallback(error, "Failed to delegate")
  /\ EndCall("handleDelegate", i)
  /\ UNCHANGED <<envVars, escaped, walletClientData, delegateContract, delegateResponse,
                 undelegateContract, undelegateVars>>
  /\ DelStep(Event("handleDelegate", "rejected"))

handleUndelegate ==
  /\ page = "delegation"
  /\ Clickable("handleUndelegate")
  /\ LET problem == delegationProblem(undelegateContract,
                                      "Enter a valid contract address to revoke")
     IN IF problem # NULL
        THEN /\ undelegateError' = problem
             /\ undelegateStatus' = "error"
             /\ UNCHANGED <<undelegateResponse, calls>>
             /\ DelStep(Event("handleUndelegate", "invalid"))
        ELSE /\ undelegateStatus' = "pending"
             /\ undelegateError' = NULL
             /\ undelegateResponse' = NULL
             /\ StartCall("handleUndelegate",
                          [from |-> address,
                           delegate |-> sanitizeContractAddress(undelegateContract)])
             /\ DelStep(Event("handleUndelegate", "invoke"))
  /\ UNCHANGED <<envVars, escaped, walletClientData, delegateContract, delegateVars,
                 undelegateContract>>

handleUndelegateResolved(i) ==
  /\ page = "delegation"
  /\ i \in 1..Len(calls["handleUndelegate"])
  /\ undelegateStatus' = "success"
  /\ undelegateResponse' = "response:sendCalls"
  /\ EndCall("handleUndelegate", i)
  /\ UNCHANGED <<envVars, escaped, walletClientData, delegateContract, delegateVars,
                 undelegateContract, undelegateError>>
  /\ DelStep(Event("handleUndelegate", "resolved"))

handleUndelegateRejected(i, error) ==
  /\ page = "delegation"
  /\ i \in 1..Len(calls["handleUndelegate"])
  /\ undelegateStatus' = "error"
  /\ undelegateError' = MessageOrFallback(error, "Failed to revoke the delegation")
  /\ EndCall("handleUndelegate", i)
  /\ UNCHANGED <<envVars, escaped, walletClientData, delegateContract, delegateVars,
                 undelegateContract, undelegateResponse>>
  /\ DelStep(Event("handleUndelegate", "rejected"))

\* the wallet connects; useWalletClient delivers its client afterwards.
\* handleConnect of the toolkit playground clears delegateError first
DelConnect ==
  /\ page \in {"delegation", "delegation2"}
  /\ address = UNDEFINED
  /\ address' = WalletAddress
  /\ delegateError' = IF page = "delegation2" THEN NULL ELSE delegateError
  /\ UNCHANGED <<page, queryEnabled, provider, calls, escaped, walletClientData, delegateContract,
                 delegateStatus, delegateResponse, undelegateContract, undelegateVars>>
  /\ DelStep(Event("connect", "wallet"))

\* the client carries the account of the connector: a json-rpc account for
\* an injected wallet, a local account for a connector that signs itself
DelWalletClient(accountType) ==
  /\ page \in {"delegation", "delegation2"}
  /\ page = "delegation" => accountType = "json-rpc"
  /\ address # UNDEFINED
  /\ walletClientData = UNDEFINED
  /\ walletClientData' = accountType
  /\ UNCHANGED <<envVars, calls, escaped, delegateContract, delegateVars,
                 undelegateContract, undelegateVars>>
  /\ DelStep(Event("walletClient", "wallet"))

DelDisconnect ==
  /\ page \in {"delegation", "delegation2"}
  /\ address # UNDEFINED
  /\ address' = UNDEFINED
  /\ walletClientData' = UNDEFINED
  /\ UNCHANGED <<page, queryEnabled, provider, calls, escaped, delegateContract, delegateVars,
                 undelegateContract, undelegateVars>>
  /\ DelStep(Event("disconnect", "wallet"))

\* DelegationUiExperiment.handleDelegate: no validation and no try / catch
UiHandleDelegate ==
  /\ page = "delegationUi"
  /\ Clickable("handleDelegate")
  /\ delegateStatus' = "pending"
  /\ delegateError' = NULL
  /\ delegateResponse' = NULL
  /\ StartCall("handleDelegate",
               [awaiting |-> "signAuthorization",
                contractAddress |-> IF delegateContract # "" THEN delegateContract
                                    ELSE DelegatorImplAddress])
  /\ UNCHANGED <<envVars, escaped, walletClientData, delegateContract,
                 undelegateContract, undelegateVars>>
  /\ DelStep(Event("handleDelegate", "invoke"))

\* walletClient.signAuthorization resolved: handleSignAuthorization goes on
\* to walletClient.sendTransaction
UiSignAuthorizationResolved(i) ==
  /\ page \in {"delegationUi", "delegation2"}
  /\ i \in 1..Len(calls["handleDelegate"])
  /\ calls["handleDelegate"][i].awaiting = "signAuthorization"
  /\ calls' = [calls EXCEPT !["handleDelegate"][i].awaiting = "sendTransaction"]
  /\ UNCHANGED <<envVars, escaped, delVars>>
  /\ DelStep(Event("signAuthorization", "resolved"))

\* walletClient.sendTransaction resolved: handleDelegate continues
UiHandleDelegateResolved(i) ==
  /\ page \in {"delegationUi", "delegation2"}
  /\ i \in 1..Len(calls["handleDelegate"])
  /\ calls["handleDelegate"][i].awaiting = "sendTransaction"
  /\ delegateStatus' = "success"
  /\ delegateResponse' = IF page = "delegationUi" THEN "UI-only: delegation simulated."
                         ELSE "response:authorization"
  /\ EndCall("handleDelegate", i)
  /\ UNCHANGED <<envVars, escaped, walletClientData, delegateContract, delegateError,
                 undelegateContract, undelegateVars>>
  /\ DelStep(Event("handleDelegate", "resolved"))

\* either await of handleSignAuthorization rejected: nothing catches it, the
\* promise of handleDelegate rejects and no state is set
UiHandleDelegateRejected(i, error) ==
  /\ page = "delegationUi"
  /\ i \in 1..Len(calls["handleDelegate"])
  /\ escaped' = TRUE
  /\ EndCall("handleDelegate", i)
  /\ UNCHANGED <<envVars, delVars>>
  /\ DelStep(Event("handleDelegate", "rejected"))

\* ---- the delegation toolkit playground (delegation2)
DelegateOptions == {"metamask", "custom"}
PrivateKeyTyped == {"key:1"}

\* currentContractAddress: the trimmed custom address or the preset's
currentContractAddress ==
  IF selectedOption = "custom" THEN Trim(customAddress) ELSE DelegatorImplAddress

\* walletSupportsAuthorization: a local account that can sign authorizations
walletSupportsAuthorization == walletClientData = "local"

\* normalizedPrivateKey; the keys typed in this model carry the 0x prefix
normalizedPrivateKey ==
  IF Trim(privateKeyInput) = "" THEN NULL ELSE Trim(privateKeyInput)

setSelectedOption(o) ==
  /\ page = "delegation2"
  /\ o # selectedOption
  /\ selectedOption' = o
  /\ UNCHANGED <<envVars, calls, escaped, walletClientData, delegateContract,
                 delegateVars, undelegateContract, undelegateVars, customAddress,
                 privateKeyInput, sigVars, byteVars>>
  /\ Step(Event("setSelectedOption", "input"), {})

\* the custom address field is enabled only for the custom option
setCustomAddress(v) ==
  /\ page = "delegation2"
  /\ selectedOption = "custom"
  /\ v # customAddress
  /\ customAddress' = v
  /\ UNCHANGED <<envVars, calls, escaped, walletClientData, delegateContract,
                 delegateVars, undelegateContract, undelegateVars, selectedOption,
                 privateKeyInput, sigVars, byteVars>>
  /\ Step(Event("setCustomAddress", "input"), {})

setPrivateKeyInput(v) ==
  /\ page = "delegation2"
  /\ v # privateKeyInput
  /\ privateKeyInput' = v
  /\ UNCHANGED <<envVars, calls, escaped, walletClientData, delegateContract,
                 delegateVars, undelegateContract, undelegateVars, selectedOption,
                 customAddress, sigVars, byteVars>>
  /\ Step(Event("setPrivateKeyInput", "input"), {})

\* handleDelegate of the toolkit playground: the only test of the address is
\* that it is not empty; without a signing account and without a private key
\* the try block throws before any call
D2HandleDelegate ==
  /\ page = "delegation2"
  /\ Clickable("handleDelegate")
  /\ IF currentContractAddress = ""
     THEN /\ delegateStatus' = "error"
          /\ delegateError' = "Enter a contract address for the delegation."
          /\ UNCHANGED <<delegateResponse, calls>>
          /\ DelStep(Event("handleDelegate", "invalid"))
     ELSE IF (walletClientData = UNDEFINED \/ ~walletSupportsAuthorization)
             /\ normalizedPrivateKey = NULL
     THEN /\ delegateStatus' = "error"
          /\ delegateError' =
               (IF walletClientData # UNDEFINED
                THEN "The wallet does not support signing EIP-7702. Enter the private key below."
                ELSE "Connect a wallet or enter a private key to sign the delegation.")
          /\ delegateResponse' = NULL
          /\ UNCHANGED calls
          /\ DelStep(Event("handleDelegate", "invalid"))
     ELSE /\ delegateStatus' = "pending"
          /\ delegateError' = NULL
          /\ delegateResponse' = NULL
          /\ StartCall("handleDelegate",
                       [awaiting |-> "signAuthorization",
                        contractAddress |-> currentContractAddress])
          /\ DelStep(Event("handleDelegate", "invoke"))
  /\ UNCHANGED <<envVars, escaped, walletClientData, delegateContract,
                 undelegateContract, undelegateVars>>

\* either await rejected: the catch stores the message of an Error
D2HandleDelegateRejected(i, error) ==
  /\ page = "delegation2"
  /\ i \in 1..Len(calls["handleDelegate"])
  /\ delegateStatus' = "error"
  /\ delegateError' = (IF error.isError THEN error.message
                       ELSE "Failed to submit the delegation. Please try again.")
  /\ EndCall("handleDelegate", i)
  /\ UNCHANGED <<envVars, escaped, walletClientData, delegateContract, delegateResponse,
                 undelegateContract, undelegateVars>>
  /\ DelStep(Event("handleDelegate", "rejected"))

DelNext ==
  \/ \E v \in DelegateTyped : setDelegateContract(v)
  \/ \E v \in DelegateTyped : setUndelegateContract(v)
  \/ handleDelegate
  \/ \E i \in 1..MaxInflight : handleDelegateResolved(i)
  \/ \E i \in 1..MaxInflight, e \in CallErrors : handleDelegateRejected(i, e)
  \/ handleUndelegate
  \/ \E i \in 1..MaxInflight : handleUndelegateResolved(i)
  \/ \E i \in 1..MaxInflight, e \in CallErrors : handleUndelegateRejected(i, e)
  \/ DelConnect
  \/ \E t \in {"json-rpc", "local"} : DelWalletClient(t)
  \/ DelDisconnect
  \/ UiHandleDelegate
  \/ \E i \in 1..MaxInflight : UiSignAuthorizationResolved(i)
  \/ \E i \in 1..MaxInflight : UiHandleDelegateResolved(i)
  \/ \E i \in 1..MaxInflight, e \in CallErrors : UiHandleDelegateRejected(i, e)
  \/ \E o \in DelegateOptions : setSelectedOption(o)
  \/ \E v \in DelegateTyped : setCustomAddress(v)
  \/ \E v \in PrivateKeyTyped : setPrivateKeyInput(v)
  \/ D2HandleDelegate
  \/ \E i \in 1..MaxInflight, e \in CallErrors : D2HandleDelegateRejected(i, e)

DelInit ==
  /\ walletClientData = UNDEFINED
  /\ delegateContract = (IF page = "delegationUi" THEN DelegatorImplAddress ELSE "")
  /\ delegateStatus = "idle"
  /\ delegateError = NULL
  /\ delegateResponse = NULL
  /\ undelegateContract = ""
  /\ undelegateStatus = "idle"
  /\ undelegateError = NULL
  /\ undelegateResponse = NULL
  /\ selectedOption = "metamask"
  /\ customAddress = ""
  /\ privateKeyInput = ""

\* ------------------------------------------------------------ specification
SigInit ==
  /\ message = ""
  /\ hashMessageSaved = ""
  /\ rawKeccakHash = ""
  /\ signature = UNDEFINED
  /\ hashError = NULL
  /\ signError = NULL
  /\ helperAddress = DEFAULT_HELPER_ADDRESS
  /\ targetAddress = DEFAULT_TARGET_ADDRESS
  /\ userAddress = ZeroAddress
  /\ helperResult = NULL
  /\ helperError = NULL
  /\ targetResult = NULL
  /\ targetError = NULL
  /\ isSigning = FALSE
  /\ isCallingHelper = FALSE
  /\ isCallingTarget = FALSE

\* the useState defaults of the signer / provider variant
EthInit ==
  /\ message = ""
  /\ hashMessageSaved = ""
  /\ rawKeccakHash = ""
  /\ signature = ""
  /\ hashError = NULL
  /\ signError = NULL
  /\ helperAddress = DEFAULT_HELPER_ADDRESS
  /\ targetAddress = DEFAULT_TARGET_ADDRESS
  /\ userAddress = ""
  /\ helperResult = NULL
  /\ helperError = NULL
  /\ targetResult = NULL
  /\ targetError = NULL
  /\ isSigning = FALSE
  /\ isCallingHelper = FALSE
  /\ isCallingTarget = FALSE

\* the state right after the playground of the page is mounted
Mounted ==
  /\ queryEnabled \in (IF page = "signature" THEN BOOLEAN ELSE {FALSE})
  /\ provider \in (IF page = "signatureEthers" THEN {{}, {"provider"}} ELSE {{}})
  /\ address = UNDEFINED
  /\ calls = [a \in Actions |-> << >>]
  /\ escaped = FALSE
  /\ events = 0
  /\ noWalletSeen = {}
  /\ ev = Event("mount", "mount")
  /\ IF page = "signatureEthers" THEN EthInit ELSE SigInit
  /\ ByteInit
  /\ configuredChains \in (IF page = "bytecode"
                           THEN {{Mainnet, Sepolia}, {Mainnet}} ELSE {{Mainnet, Sepolia}})
  /\ DelInit
  /\ reads = IF queryEnabled THEN {HelperRead("hook"), TargetRead("hook")} ELSE {}

Init ==
  /\ page \in Pages
  /\ Mounted
  /\ fn = "none"
  /\ arg = << >>
  /\ out = FALSE

Next == SigNext \/ ByteNext \/ DelNext

Spec == Init /\ [][Next]_vars

\* ------------------------------------------- the magic-value match on its own
\* raw results: null, and 0x1626 followed by up to VarDigits sample digits
MagicPrefix == <<"0","x","1","6","2","6">>
MagicDigits == {"b", "B", "a", "7", "e", "E"}

RECURSIVE SeqsUpTo(_, _)
SeqsUpTo(S, n) ==
  IF n = 0 THEN {<< >>}
  ELSE LET shorter == SeqsUpTo(S, n - 1)
       IN shorter \cup {Append(t, c) : t \in {u \in shorter : Len(u) = n - 1}, c \in S}

RawResults == {NullChars} \cup {MagicPrefix \o t : t \in SeqsUpTo(MagicDigits, VarDigits)}

ApplyMatchesMagic ==
  /\ fn = "none"
  /\ fn' = "matchesMagic"
  /\ out' = matchesMagic(arg)
  /\ UNCHANGED <<envVars, calls, reads, ev, escaped, events, noWalletSeen, sigVars,
                 byteVars, delVars,
                 arg>>

ApplyIsErc1271MagicValue ==
  /\ fn = "none"
  /\ fn' = "isErc1271MagicValue"
  /\ out' = isErc1271MagicValue(arg)
  /\ UNCHANGED <<envVars, calls, reads, ev, escaped, events, noWalletSeen, sigVars,
                 byteVars, delVars,
                 arg>>

MagicInit ==
  /\ page = "none"
  /\ Mounted
  /\ fn = "none"
  /\ arg \in RawResults
  /\ out = FALSE

MagicNext == ApplyMatchesMagic \/ ApplyIsErc1271MagicValue

MagicSpec == MagicInit /\ [][MagicNext]_vars

\* ------------------------------------------------ the validators on their own
\* inputs of validateHash / validateSignature: empty, undefined, not hex,
\* hex of 0, 1, 32 and 65 bytes, one digit short or long, upper-case digits,
\* a digit outside hex, no 0x prefix, a 0X prefix
ValidatorInputs == {"", UNDEFINED, "zz", "0x", "0x12", " 0x12 ", "eip191:a", "sig:a",
                    "h:63", "h:65", "h:upper", "h:bad", "h:noprefix", "h:0X",
                    "s:129", "s:131", "s:upper", "s:bad"}

\* one application of a validator; neither has a side effect
ApplyValidateHash ==
  /\ events < MaxEvents
  /\ events' = events + 1
  /\ fn' = "validateHash"
  /\ out' = validateHash(arg)
  /\ UNCHANGED <<envVars, calls, reads, ev, escaped, noWalletSeen, sigVars, byteVars,
                 delVars, arg>>

ApplyValidateSignature ==
  /\ events < MaxEvents
  /\ events' = events + 1
  /\ fn' = "validateSignature"
  /\ out' = validateSignature(arg)
  /\ UNCHANGED <<envVars, calls, reads, ev, escaped, noWalletSeen, sigVars, byteVars,
                 delVars, arg>>

ValidatorInit ==
  /\ page = "none"
  /\ Mounted
  /\ fn = "none"
  /\ arg \in ValidatorInputs
  /\ out = FALSE

ValidatorNext == ApplyValidateHash \/ ApplyValidateSignature

ValidatorSpec == ValidatorInit /\ [][ValidatorNext]_vars

\* ----------------------------------------------------------- vocabulary
\* the actions that record their outcome in a result field, and that field
ResultActions == {"callHelper", "callTarget", "recoverSigner", "fetchBytecode",
                  "checkErc1271", "handleDelegate", "handleUndelegate"}

HasResult(a) ==
  CASE a = "callHelper" -> helperResult # NULL
    [] a = "callTarget" -> targetResult # NULL
    [] a = "recoverSigner" -> claimedSigner # NULL
    [] a = "fetchBytecode" -> Cardinality(bytecodeResult) > 0
    [] a = "checkErc1271" -> erc1271Result # NULL
    [] a = "handleDelegate" -> delegateResponse # NULL
    [] a = "handleUndelegate" -> undelegateResponse # NULL
    [] OTHER -> FALSE

\* the error field of an action
ErrorOf(a) ==
  CASE a = "signMessage" -> signError
    [] a = "callHelper" -> helperError
    [] a = "callTarget" -> targetError
    [] a = "autogenerateTypedData" -> autogenerateError
    [] a = "recoverSigner" -> typedDataError
    [] a = "fetchBytecode" -> bytecodeError
    [] a = "checkErc1271" -> erc1271Error
    [] a = "handleDelegate" -> delegateError
    [] a = "handleUndelegate" -> undelegateError

\* the pending indicator of an action
PendingIndicator(a) ==
  CASE a = "signMessage" -> isSigning
    [] a = "callHelper" -> isCallingHelper
    [] a = "callTarget" -> isCallingTarget
    [] a = "autogenerateTypedData" -> isAutogenerating
    [] a = "recoverSigner" -> isRecovering
    [] a = "fetchBytecode" -> isFetchingBytecode
    [] a = "checkErc1271" -> isChecking1271
    [] a = "handleDelegate" -> delegateStatus = "pending"
    [] a = "handleUndelegate" -> undelegateStatus = "pending"

\* the status the view shows for an action: the status field of the
\* delegation playgrounds, and what the flag, error and result fields of the
\* other playgrounds amount to
Status(a) ==
  CASE a = "handleDelegate" -> delegateStatus
    [] a = "handleUndelegate" -> undelegateStatus
    [] OTHER -> IF PendingIndicator(a) THEN "pending"
                ELSE IF ErrorOf(a) # NULL THEN "error"
                ELSE IF HasResult(a) THEN "success"
                ELSE "idle"

\* a contract read whose arguments pass the validators
Validated(r) ==
  /\ validateHash(r.hash) = NULL
  /\ validateSignature(r.signature) = NULL
  /\ validateAddress(r.address, "invalid") = NULL
  /\ r.user # NULL => validateAddress(r.user, "invalid") = NULL

\* ---------------------------------------------------------------- claims
\* C1: when a wallet or chain call rejects, the invoking action (callHelper,
\* callTarget, checkErc1271, fetchBytecode, signMessage, recoverSigner,
\* autogenerateTypedData) ends with its error field non-null and its result
\* field null, and the exception does not escape the action.
RejectionLeavesErrorAndNoResult ==
  (ev.kind = "rejected" /\ ev.act \in SigActions \cup ByteActions) =>
    /\ ErrorOf(ev.act) # NULL
    /\ ~HasResult(ev.act)
    /\ ~escaped

\* C2: an action clears its previous result before a new attempt: while the
\* action is pending, and right after an attempt of it ended in a rejection,
\* its result field holds no value.
NoResultOfEarlierAttempt ==
  \A a \in ResultActions :
    (PendingIndicator(a) \/ ev = Event(a, "rejected")) => ~HasResult(a)

\* C3: in the signature playground no isValidSignature /
\* isValidSignatureWithUser read reaches the chain, from callHelper, from
\* callTarget or from the registered read hooks, unless its hash, its
\* signature and its addresses pass the validators.
ReadsAreValidated ==
  \A r \in reads : (page = "signature" /\ Encodable(r)) => Validated(r)

\* C4: at most one call of an action is in flight, and while one is its
\* pending indicator is set.
OneCallInFlight ==
  \A a \in Actions :
    /\ Len(calls[a]) <= 1
    /\ Len(calls[a]) = 1 => PendingIndicator(a)

\* C4 witness: an action was invoked, its call is in flight and its button is
\* disabled.
SecondInvocationBlocked ==
  \E a \in Actions :
    ev = Event(a, "invoke") /\ Len(calls[a]) = 1 /\ Disabled(a) /\ ~Clickable(a)

\* C5: a pending action whose call rejects reaches error, with its pending
\* indicator cleared, in every playground.
RejectionEndsInError ==
  \A a \in Actions :
    ev = Event(a, "rejected") => Status(a) = "error" /\ ~PendingIndicator(a)

\* C6: the status of an action moves idle -> pending -> (success | error) and
\* never returns to idle on its own: no completion of a call sets a status
\* that is not idle back to idle.
NoAutomaticReturnToIdle ==
  [][\A a \in ResultActions :
        (Status(a) # "idle" /\ Status(a)' = "idle")
          => ev'.kind \notin {"resolved", "rejected"}]_vars

\* C7: a non-null bytecodeResult, bytecodeError, erc1271Result or
\* erc1271Error was produced by a call made on the selected network.
ResultsBelongToSelectedNetwork ==
  /\ (HasResult("fetchBytecode") \/ bytecodeError # NULL) => bytecodeOrigin = {chainId}
  /\ (erc1271Result # NULL \/ erc1271Error # NULL) => erc1271Origin = {chainId}

\* C8: a change of the selected network leaves bytecodeResult, bytecodeError,
\* erc1271Result and erc1271Error null and leaves the typed-data inputs,
\* signatureInput, addressInput, hashInput and claimedSigner unchanged.
ChainSwitchClearsResultsOnly ==
  [][chainId' # chainId =>
       /\ Cardinality(bytecodeResult') = 0 /\ bytecodeError' = NULL
       /\ erc1271Result' = NULL /\ erc1271Error' = NULL
       /\ UNCHANGED <<typedInputs, signatureInput, addressInput, hashInput,
                      claimedSigner>>]_vars

\* C8 witness: the network was switched with a recovered signer, an address
\* and a hash in the form.
ChainSwitchedWithInputs ==
  /\ ev = Event("setChainId", "input")
  /\ chainId = Sepolia
  /\ claimedSigner # NULL
  /\ addressInput # ""
  /\ hashInput # ""

\* C9: after a setMessage that changes the message, the signature is
\* cleared and hashMessage and rawKeccakHash are the hashes of the new
\* message.
MessageChangeResetsHashesAndSignature ==
  ev = Event("setMessage", "input") =>
    /\ signature = UNDEFINED
    /\ hashMessageSaved = hashMessage(message)
    /\ rawKeccakHash = keccak256(message)

\* C10: the magic-value match of a raw result r is true iff lower-case(r) is
\* 0x1626ba7e, and false for a null result, for matchesMagic and for
\* isErc1271MagicValue.
MagicMatchIgnoresCase ==
  fn \in {"matchesMagic", "isErc1271MagicValue"} =>
    out = (arg # NullChars /\ ToLowerCase(arg) = Chars(ERC1271_MAGIC_VALUE))

\* C11: after generatePayload, payloadForSigning is non-null only when
\* domainInput, typesInput and messageInput parse as JSON, primaryType is
\* non-empty and primaryType is a key of the parsed types; otherwise
\* payloadForSigning is null and payloadError holds the report.
PayloadOnlyFromWellFormedInputs ==
  ev = Event("generatePayload", "done") =>
    \/ /\ JsonParses(domainInput) /\ JsonParses(typesInput) /\ JsonParses(messageInput)
       /\ primaryType # ""
       /\ primaryType \in ParsedKeys(typesInput)
    \/ Cardinality(payloadForSigning) = 0 /\ payloadError # NULL

\* C12: in the bytecode playground every readContract call of checkErc1271
\* carries a hashInput that is a hex string of exactly 32 bytes, and every
\* recovery call of recoverSigner carries a signatureInput that is a hex
\* string of exactly 65 bytes.
ByteLengthsCheckedBeforeCall ==
  /\ \A i \in 1..Len(calls["checkErc1271"]) :
       isHexStringLen(calls["checkErc1271"][i].read.hash, HashBytes)
  /\ \A i \in 1..Len(calls["recoverSigner"]) :
       isHexStringLen(calls["recoverSigner"][i].signature, SignatureBytes)

\* a well-formed address: 0x followed by 20 bytes of hex digits
WellFormedAddress(s) ==
  Len(Chars(s)) = 2 + AddressHexDigits /\ IsHexChars(Chars(s))

\* C13: no call of fetchBytecode, checkErc1271, handleDelegate or
\* handleUndelegate is in flight for an address input that is not a
\* well-formed 20-byte hex address, in any playground, and an invocation
\* that made no call left the error of its action set.
MalformedAddressNeverCalled ==
  /\ \A i \in 1..Len(calls["fetchBytecode"]) :
       WellFormedAddress(calls["fetchBytecode"][i].address)
  /\ \A i \in 1..Len(calls["checkErc1271"]) :
       WellFormedAddress(calls["checkErc1271"][i].read.address)
  /\ \A i \in 1..Len(calls["handleDelegate"]) :
       WellFormedAddress(IF page = "delegation"
                         THEN calls["handleDelegate"][i].delegate
                         ELSE calls["handleDelegate"][i].contractAddress)
  /\ \A i \in 1..Len(calls["handleUndelegate"]) :
       WellFormedAddress(calls["handleUndelegate"][i].delegate)
  /\ \A a \in {"fetchBytecode", "checkErc1271", "handleDelegate", "handleUndelegate"} :
       ev = Event(a, "invalid") => ErrorOf(a) # NULL

\* 0x followed by exactly n bytes of hex digits
HexOfBytes(cs, n) ==
  /\ Len(cs) = 2 + 2 * n
  /\ cs[1] = "0" /\ cs[2] = "x"
  /\ \A i \in 3..Len(cs) : cs[i] \in HexDigits

\* C14: validateHash returns null iff its input is a non-empty hex string of
\* exactly 32 bytes, validateSignature iff it is one of exactly 65 bytes;
\* otherwise the message is that of the first failing test in the order
\* empty, not hex, wrong length.  The result depends on the input only, and
\* an application changes no state of the playgrounds.
ValidatorsExactAndPure ==
  /\ fn = "validateHash" =>
       /\ (out = NULL) = (arg \notin {"", UNDEFINED} /\ HexOfBytes(Chars(arg), HashBytes))
       /\ out = (IF arg \in {"", UNDEFINED} THEN "Enter a hash"
                 ELSE IF ~IsHexChars(Chars(arg)) THEN "Hash must be a hex string"
                 ELSE IF Len(Chars(arg)) # 2 + 2 * HashBytes
                      THEN "Hash must be a bytes32 hex string"
                 ELSE NULL)
  /\ fn = "validateSignature" =>
       /\ (out = NULL) = (arg \notin {"", UNDEFINED}
                          /\ HexOfBytes(Chars(arg), SignatureBytes))
       /\ out = (IF arg \in {"", UNDEFINED} THEN "Enter a signature"
                 ELSE IF ~IsHexChars(Chars(arg)) THEN "Signature must be a hex string"
                 ELSE IF Len(Chars(arg)) # 2 + 2 * SignatureBytes
                      THEN "Signature must be 65 bytes long"
                 ELSE NULL)
  /\ fn \in {"validateHash", "validateSignature"} =>
       /\ SigInit /\ ByteInit /\ DelInit
       /\ calls = [a \in Actions |-> << >>]
       /\ reads = {}

\* C14 witness: both validators were applied to a hex string one digit too
\* long and returned the wrong-length message.
ValidatorRejectedWrongLength ==
  \/ fn = "validateHash" /\ arg = "h:65" /\ out = "Hash must be a bytes32 hex string"
  \/ fn = "validateSignature" /\ arg = "s:131" /\ out = "Signature must be 65 bytes long"

\* the action a contract read is made for
ReadAction(r) ==
  IF r.fn = "isValidSignatureWithUser" THEN "callHelper"
  ELSE IF page = "bytecode" THEN "checkErc1271" ELSE "callTarget"

\* C15: a wallet or chain call is issued only by a user invocation of its
\* action: a step that adds a call in flight for an action, or that sends a
\* contract read to the chain, is an invocation of that action, never an
\* edit of an input, a completion or a retry.
CallsOnlyOnInvocation ==
  [][/\ \A a \in Actions :
          Len(calls'[a]) > Len(calls[a]) => ev' = Event(a, "invoke")
     /\ \A r \in reads' :
          Encodable(r) => ev' = Event(ReadAction(r), "invoke")]_vars

\* the result and error fields of the contract-query actions
QueryResultFields ==
  <<helperResult, helperError, targetResult, targetError,
    bytecodeResult, bytecodeError, erc1271Result, erc1271Error>>

\* C16: the completion of signMessage, recoverSigner or autogenerateTypedData
\* never changes the result or error field of another action (helperResult,
\* targetResult, bytecodeResult, bytecodeError, erc1271Result, erc1271Error
\* and the two helper / target errors), pending or not.
CompletionWritesOwnFieldsOnly ==
  [][(/\ ev'.act \in {"signMessage", "recoverSigner", "autogenerateTypedData"}
      /\ ev'.kind \in {"resolved", "rejected"})
     => UNCHANGED QueryResultFields]_vars


ComputeHashesDependsOnMessageOnly ==
  [][ev' = Event("computeHashes", "done")
     => /\ message # ""
        /\ hashMessageSaved' = hashMessage(message)
        /\ rawKeccakHash' = keccak256(message)
        /\ ev = Event("computeHashes", "done")
             => /\ hashMessageSaved' = hashMessageSaved
                /\ rawKeccakHash' = rawKeccakHash
        /\ UNCHANGED <<envVars, calls, message, signature, helperAddress,
                       targetAddress, userAddress, sigSignVars, sigHelperVars,
                       sigTargetVars>>]_vars

\* computeHashes ran for the message "b" while a wallet was connected
HashesComputedWhileConnected ==
  /\ ev = Event("computeHashes", "done")
  /\ address # UNDEFINED
  /\ message = "b"
  /\ hashMessageSaved = hashMessage("b")
  /\ rawKeccakHash = keccak256("b")


\* the first message of a sequence of validation results, NULL when every
\* check passed
FirstFailure(results) ==
  IF \A i \in 1..Len(results) : results[i] = NULL THEN NULL
  ELSE results[CHOOSE i \in 1..Len(results) :
                 results[i] # NULL /\ \A j \in 1..(i - 1) : results[j] = NULL]

\* the checks of callHelper and of callTarget in the order the claim fixes
HelperChecksInOrder ==
  <<validateHash(hashMessageSaved), validateSignature(signature),
    validateAddress(helperAddress, "Enter a valid helper contract address"),
    validateAddress(userAddress, "Enter a valid user address")>>
TargetChecksInOrder ==
  <<validateHash(hashMessageSaved), validateSignature(signature),
    validateAddress(targetAddress, "Enter a valid contract address")>>

\* C19: with a chain client present, callHelper stores the error of the first
\* failing check in the order hash, signature, helper address, user address,
\* and callTarget in the order hash, signature, target address; no later check
\* replaces that error and no call is made; a call is made only when every
\* check passes.
FirstFailingCheckReported ==
  [][/\ (ev'.act = "callHelper" /\ ev'.kind \in {"invalid", "invoke"}
         /\ (page = "signatureEthers" => provider # {}))
          => IF FirstFailure(HelperChecksInOrder) # NULL
             THEN /\ ev'.kind = "invalid"
                  /\ helperError' = FirstFailure(HelperChecksInOrder)
                  /\ calls' = calls
                  /\ reads' = {}
             ELSE ev'.kind = "invoke" /\ helperError' = NULL
     /\ (ev'.act = "callTarget" /\ ev'.kind \in {"invalid", "invoke"}
         /\ (page = "signatureEthers" => provider # {}))
          => IF FirstFailure(TargetChecksInOrder) # NULL
             THEN /\ ev'.kind = "invalid"
                  /\ targetError' = FirstFailure(TargetChecksInOrder)
                  /\ calls' = calls
                  /\ reads' = {}
             ELSE ev'.kind = "invoke" /\ targetError' = NULL]_vars

\* callHelper was refused with the signature error while the hash was valid
\* and both the signature and the user address were not
SignatureErrorBeforeAddressError ==
  /\ ev = Event("callHelper", "invalid")
  /\ validateHash(hashMessageSaved) = NULL
  /\ validateSignature(signature) # NULL
  /\ validateAddress(userAddress, "Enter a valid user address") # NULL
  /\ helperError = validateSignature(signature)
  /\ calls["callHelper"] = << >>


\* the chain client that action a calls through is absent: options.provider
\* of the signer / provider variant, the public client of the selected network
ChainClientAbsent(a) ==
  CASE a \in {"callHelper", "callTarget"} -> page = "signatureEthers" /\ provider = {}
    [] a \in {"fetchBytecode", "checkErc1271"} -> page = "bytecode" /\ publicClient = {}
    [] OTHER -> FALSE

\* the error an action reports for an absent chain client
NotInitializedMessage(a) ==
  IF a \in {"callHelper", "callTarget"} THEN "Provider is not initialized"
  ELSE "The public client has not been initialized yet"

\* C20: invoked while its chain client is absent, callHelper, callTarget,
\* fetchBytecode and checkErc1271 report the 'not initialized' error whatever
\* the inputs are, and issue no call.
NotInitializedReportedFirst ==
  [][\A a \in {"callHelper", "callTarget", "fetchBytecode", "checkErc1271"} :
       (ev'.act = a /\ ev'.kind \in {"invalid", "invoke"} /\ ChainClientAbsent(a))
         => /\ ev'.kind = "invalid"
            /\ ErrorOf(a)' = NotInitializedMessage(a)
            /\ calls' = calls
            /\ reads' = {}
            /\ ~PendingIndicator(a)']_vars

\* callHelper was invoked without a provider while the hash and the user
\* address were invalid too, and reported the provider
ProviderErrorBeforeValidation ==
  /\ ev = Event("callHelper", "invalid")
  /\ ChainClientAbsent("callHelper")
  /\ validateHash(hashMessageSaved) # NULL
  /\ validateAddress(userAddress, "Enter a valid user address") # NULL
  /\ helperError = "Provider is not initialized"


\* the message the precedence of the claim picks: the short message of the
\* error, else its message, else the fallback
PreferredMessage(error, fallback) ==
  IF error.shortMessage # "" THEN error.shortMessage
  ELSE IF error.message # UNDEFINED /\ error.message # NULL THEN error.message
  ELSE fallback

\* the fallback string of the catch block of an action
RejectionFallback(a) ==
  CASE a = "signMessage" -> "Failed to sign the message"
    [] a \in {"callHelper", "callTarget"} -> "The call failed"
    [] OTHER -> "Unknown error"

\* C21: the message stored when the wallet or chain call of an action of the
\* signature or the bytecode playground is rejected is the one the precedence
\* short message, else message, else fallback picks for the error thrown;
\* for signMessage as for the contract reads.
RejectionMessageByOnePrecedence ==
  [][\A a \in SigActions \cup ByteActions :
       ev' = Event(a, "rejected")
         => ErrorOf(a)' \in {PreferredMessage(e, RejectionFallback(a)) : e \in CallErrors}]_vars

\* C22: every bytecodeResult stored by fetchBytecode has isContract true
\* exactly when the bytecode returned is neither absent nor the bare 0x, a
\* size that is the number of bytes after the prefix (two hex digits each),
\* and size 0 exactly when isContract is false.
BytecodeResultConsistent ==
  \A r \in bytecodeResult :
    /\ r.isContract <=> (r.bytecode # NULL /\ r.bytecode # "0x")
    /\ r.isContract => 2 * r.size + 2 = Len(Chars(r.bytecode))
    /\ (r.size = 0) <=> ~r.isContract

\* fetchBytecode stored the result of an address that carries two bytes of code
ContractBytecodeStored ==
  /\ ev = Event("fetchBytecode", "resolved")
  /\ \E r \in bytecodeResult : r.isContract /\ r.size = 2 /\ r.bytecode = "0x6080"

\* C23: computeHashes with an empty message sets hashError and leaves
\* hashMessage and rawKeccakHash as they were; with a non-empty message it
\* stores both hashes and clears hashError.
ComputeHashesEmptyOrBoth ==
  [][ev'.act = "computeHashes"
     => IF message = ""
        THEN /\ ev'.kind = "invalid"
             /\ hashError' # NULL
             /\ UNCHANGED <<hashMessageSaved, rawKeccakHash>>
        ELSE /\ ev'.kind = "done"
             /\ hashMessageSaved' = hashMessage(message)
             /\ rawKeccakHash' = keccak256(message)
             /\ hashError' = NULL]_vars

\* computeHashes was refused for the empty message after an earlier run had
\* stored the hashes of a message, and the hashes are still there
EmptyMessageKeptEarlierHashes ==
  /\ ev = Event("computeHashes", "invalid")
  /\ message = ""
  /\ hashError # NULL
  /\ hashMessageSaved = hashMessage("a")
  /\ rawKeccakHash = keccak256("a")

\* C24: in the bytecode playground payloadForSigning and payloadError are
\* never both non-null, under every interleaving of generatePayload,
\* autogenerateTypedData (start and completion) and edits of the inputs.
PayloadAndErrorExclusive ==
  ~(payloadForSigning # {} /\ payloadError # NULL)

\* C25: a signMessage that succeeds stores a signature, a hashMessage and a
\* rawKeccakHash that all belong to one message, the message of an invocation
\* still in flight, whatever happened to the message field in the meantime;
\* the three are written in the same step.
SignedValuesFromCapturedMessage ==
  [][ev' = Event("signMessage", "resolved")
     => \E i \in 1..Len(calls["signMessage"]) :
          LET m == calls["signMessage"][i].message
          IN /\ m # ""
             /\ signature' = WalletSign(m)
             /\ hashMessageSaved' = hashMessage(m)
             /\ rawKeccakHash' = keccak256(m)]_vars

\* the message field was edited to "b" while the prompt for "a" was pending,
\* and the three values stored are those of "a"
SignedWhileMessageEdited ==
  /\ ev = Event("signMessage", "resolved")
  /\ message = "b"
  /\ signature = WalletSign("a")
  /\ hashMessageSaved = hashMessage("a")
  /\ rawKeccakHash = keccak256("a")

\* C26: in the bytecode playground bytecodeResult and bytecodeError are never
\* both non-null, and neither are erc1271Result and erc1271Error, including
\* after network switches and after completions of recoverSigner or
\* autogenerateTypedData while fetchBytecode or checkErc1271 is pending.
ResultAndErrorExclusive ==
  /\ ~(bytecodeResult # {} /\ bytecodeError # NULL)
  /\ ~(erc1271Result # NULL /\ erc1271Error # NULL)

\* fetchBytecode resolved after the network was switched while it was
\* pending: the result of the earlier network is stored and no error is
ResultStoredAfterSwitchWhilePending ==
  /\ ev = Event("fetchBytecode", "resolved")
  /\ bytecodeResult # {}
  /\ bytecodeOrigin # {chainId}
  /\ bytecodeError = NULL

\* C27: a payloadForSigning that is non-null was generated from the current
\* domainInput, typesInput, messageInput and primaryType: every edit of one of
\* the four clears payloadForSigning and payloadError, and the completion of
\* autogenerateTypedData stores the payload together with its inputs.
PayloadMatchesCurrentInputs ==
  [][/\ \A p \in payloadForSigning' :
          p = [types |-> typesInput', domain |-> domainInput',
               primaryType |-> primaryType', message |-> messageInput']
     /\ ev' = Event("setTypedInput", "input")
          => payloadForSigning' = {} /\ payloadError' = NULL
     /\ ev' = Event("autogenerateTypedData", "resolved")
          => payloadForSigning' # {}]_vars

\* generatePayload stored a payload for inputs that were typed by hand
PayloadGeneratedFromTypedInputs ==
  /\ ev = Event("generatePayload", "done")
  /\ payloadForSigning # {}
  /\ typesInput = "types:sample"
  /\ primaryType = "PermitSingle"
  /\ payloadError = NULL

\* C28: a recoverSigner that fails, in its checks or by a rejected recovery,
\* changes only typedDataError and isRecovering; so does the start of an
\* attempt: claimedSigner, addressInput, hashInput, erc1271Signature,
\* bytecodeResult, erc1271Result and every other field stay as they were.
FailedRecoveryWritesErrorOnly ==
  [][(ev'.act = "recoverSigner" /\ ev'.kind \in {"invalid", "invoke", "rejected"})
     => /\ (ev'.kind # "invoke") => (typedDataError' # NULL /\ ~isRecovering')
        /\ UNCHANGED <<claimedSigner, addressInput, hashInput, erc1271Signature,
                       bytecodeVars, erc1271Vars, typedInputs, signatureInput,
                       payloadVars, autogenerateError, chainId>>]_vars

\* a recovery was rejected after an earlier one had succeeded, and the signer
\* and the address of the earlier one are still there
RejectedRecoveryKeptEarlierSigner ==
  /\ ev = Event("recoverSigner", "rejected")
  /\ typedDataError # NULL
  /\ claimedSigner = RecoveredAddress
  /\ addressInput = RecoveredAddress

\* C29: in the delegation playgrounds delegateError is non-null exactly when
\* delegateStatus is error, and undelegateError exactly when undelegateStatus
\* is error, in every reachable state.
DelegationErrorIffStatusError ==
  /\ (delegateError # NULL) <=> (delegateStatus = "error")
  /\ (undelegateError # NULL) <=> (undelegateStatus = "error")

====
